---- MODULE Spec2Model ----
(***************************************************************************)
(* The hive broker (src/src/client/connection.ts, class HiveBroker) as a   *)
(* state machine.  One action per event the broker's event loop handles:   *)
(* a connection being accepted, one inbound record of each type, the       *)
(* transport of a session closing, the close and error events of a         *)
(* session, the administrative disconnect hook and the heartbeat reaper.   *)
(*                                                                         *)
(* Strings the code computes with (agent names, reservation paths) are     *)
(* sequences of one-character strings, so that concatenation, trimming,    *)
(* prefix tests and slicing are computed as the code computes them.        *)
(* Strings the broker only copies (ids, channel names, contents,           *)
(* correlation ids, reasons) are TLA+ strings.                             *)
(***************************************************************************)
EXTENDS Integers, Sequences, FiniteSets, TLC

(***************************************************************************)
(* Bounds and input sets                                                   *)
(***************************************************************************)
\* Inbound records handled in one behaviour of each specification.
MaxRecords == 3
MaxRecordsRes == 4
MaxRecordsChan == 4
MaxRecordsMsg == 4
MaxRecordsDisc == 3
MaxRecordsSend == 5
MaxRecordsPres == 4
MaxRecordsFirst == 4
MaxRecordsErr == 3

\* Records handled in a behaviour of heartbeats and sweeps.
MaxRecordsReplica == 4
MaxRecordsMirror == 4
MaxRecordsReap == 4
\* Records handled in a behaviour of renames there and back.
MaxRecordsNames == 4
\* Records handled in a behaviour of reserves and releases of one path.
MaxRecordsTrip == 5
\* Records handled in a behaviour that reserves a drawn path, and the length
\* of the drawn path.
MaxRecordsNorm == 2
MaxPathLen == 3
\* Records the Inbox receives in one behaviour.
MaxArrivals == 2

HeartbeatTimeout == 60000  \* const timeout = 60000

Sessions == {"s1", "s2", "s3"}         \* WebSocket connections
SessionOrder == <<"s1", "s2", "s3">>   \* the order in which they are accepted
IdOrder == <<"a", "b", "c">>           \* agent ids (non-empty tokens), in the
Ids == {"a", "b", "c"}                 \* order in which clients first use them
Null == "null"                         \* JS null (the agentId closure variable)
Undef == "undefined"                   \* JS undefined (an absent optional field)

\* Inputs of the records the model sends.
RegNames == {<<"x">>}                                \* register.name
RenameNames == {<<"y">>, <<"z", " ">>, <<" ">>}      \* rename.name
UnknownName == <<"n", "o">>                          \* a name nobody takes
ChannelNames == {"ch"}
Statuses == {"idle", "busy", "done"}                 \* AgentInfo["status"]
StatusMessages == {Undef, "", "wip"}                 \* presence_update.statusMessage
ActivityStamps == {"t9"}                             \* presence_update.lastActivityAt
Contents == {"hello"}
CorrelationIds == {Undef, "c1"}
PDir == <<"/", "r", "/">>                            \* "/r/"
PFile == <<"/", "r", "/", "f">>                      \* "/r/f"
PBare == <<"\\", "r">>                               \* "\r", normalizes to "/r"
POther == <<"/", "q", " ">>                          \* "/q "
PBlank == <<" ">>                                    \* " ", normalizes to ""
ReserveMsgs == {[paths |-> <<PDir>>, reason |-> "fix"],
                [paths |-> <<PFile, POther>>, reason |-> Undef],
                [paths |-> <<PBare>>, reason |-> Undef]}
BlankPathLists == {<<PBlank>>}
ReleasePathLists == {<<>>, <<PFile>>, <<PBare, PDir>>}

(***************************************************************************)
(* Strings as sequences of characters                                      *)
(***************************************************************************)
RECURSIVE Digits(_)
Digits(i) == IF i < 10 THEN <<ToString(i)>>
             ELSE Digits(i \div 10) \o <<ToString(i % 10)>>

IsSpace(c) == c = " "

RECURSIVE TrimStart(_)
TrimStart(s) == IF s # <<>> /\ IsSpace(Head(s)) THEN TrimStart(Tail(s)) ELSE s

RECURSIVE TrimEnd(_)
TrimEnd(s) == IF s # <<>> /\ IsSpace(s[Len(s)])
              THEN TrimEnd(SubSeq(s, 1, Len(s) - 1)) ELSE s

Trim(s) == TrimEnd(TrimStart(s))

StartsWith(s, p) == Len(p) <= Len(s) /\ SubSeq(s, 1, Len(p)) = p
EndsWith(s, c) == s # <<>> /\ s[Len(s)] = c
DropLast(s) == SubSeq(s, 1, Len(s) - 1)      \* s.slice(0, -1)

(***************************************************************************)
(* JS Map as a function on its key set                                     *)
(***************************************************************************)
EmptyMap == <<>>
MapHas(m, k) == k \in DOMAIN m
MapSet(m, k, v) == [x \in DOMAIN m \cup {k} |-> IF x = k THEN v ELSE m[x]]
MapDelete(m, k) == [x \in DOMAIN m \ {k} |-> m[x]]

Repeat(msg, n) == [i \in 1..n |-> msg]

(***************************************************************************)
(* Broker state                                                            *)
(***************************************************************************)
VARIABLES
  ready,         \* ws.readyState of each session; "NONE" before it is accepted
  agentId,       \* the agentId closure variable of each session's handlers
  agents,        \* HiveBroker.agents: id -> ConnectedAgent [info, ws, lastHeartbeat]
  nameToId,      \* HiveBroker.nameToId: name -> id
  channels,      \* HiveBroker.channels: channel name -> [members, createdBy]
  reservations,  \* HiveBroker.reservations: entries [owner, paths, reason] in
                 \* Map insertion order (the conflict scan iterates them)
  now,           \* Date.now()
  nids,          \* ids of IdOrder that some register record has used
  budget,        \* inbound records the behaviour may still handle
  disconnected,  \* pairs <<session, id>>: a disconnect has been triggered for
                 \* the id while it was registered through the session
  refused,       \* sessions answered with an error before they registered
  inbox,         \* one client's Inbox: its fields and what its last event did
  hist,          \* history of that Inbox: arrivals, injections, replies
  client,        \* one HiveClient: its caches, and the last tool call it saw
  calc,          \* the input and the results of a function applied on its own
  ev,            \* the event the broker handled last
  sent           \* per session, the records the last event put on its wire

vars == <<ready, agentId, agents, nameToId, channels, reservations, now,
          nids, budget, disconnected, refused, inbox, hist, client, calc,
          ev, sent>>

\* The broker's part of the state.
brokerVars == <<ready, agentId, agents, nameToId, channels, reservations, now,
                nids, budget, disconnected, refused, ev, sent>>

NoSend == [w \in Sessions |-> <<>>]

\* The broker's tables and sockets as one value, threaded through the handlers.
Cur == [agents |-> agents, nameToId |-> nameToId, channels |-> channels,
        reservations |-> reservations, ready |-> ready, sent |-> NoSend]

(***************************************************************************)
(* Helpers: sendTo, broadcastAll, broadcastExcept, getAgents,              *)
(* getReservations                                                         *)
(***************************************************************************)
sendTo(st, w, msg) ==
  IF st.ready[w] = "OPEN"
  THEN [st EXCEPT !.sent[w] = Append(@, msg)]
  ELSE st

\* One sendTo per registry entry other than excludeId; entries that share a
\* socket each put a copy on it.
broadcastExcept(st, excludeId, msg) ==
  [st EXCEPT !.sent =
     [w \in Sessions |->
        IF st.ready[w] = "OPEN"
        THEN st.sent[w] \o
             Repeat(msg, Cardinality({id \in DOMAIN st.agents \ {excludeId} :
                                         st.agents[id].ws = w}))
        ELSE st.sent[w]]]

broadcastAll(st, msg) ==
  [st EXCEPT !.sent =
     [w \in Sessions |->
        IF st.ready[w] = "OPEN"
        THEN st.sent[w] \o
             Repeat(msg, Cardinality({id \in DOMAIN st.agents :
                                         st.agents[id].ws = w}))
        ELSE st.sent[w]]]

getAgents(st) == {st.agents[id].info : id \in DOMAIN st.agents}
getChannels(st) ==
  {[name |-> c, members |-> st.channels[c].members,
    createdBy |-> st.channels[c].createdBy] : c \in DOMAIN st.channels}

\* The reservations Map: an owner's entry, set (an existing key keeps its
\* place, a new one goes last) and delete.
ResHas(res, id) == \E j \in 1..Len(res) : res[j].owner = id
ResGet(res, id) == res[CHOOSE j \in 1..Len(res) : res[j].owner = id]
ResSet(res, id, paths, reason) ==
  LET e == [owner |-> id, paths |-> paths, reason |-> reason] IN
  IF ResHas(res, id)
  THEN [j \in 1..Len(res) |-> IF res[j].owner = id THEN e ELSE res[j]]
  ELSE Append(res, e)
ResDelete(res, id) ==
  LET Other(e) == e.owner # id IN SelectSeq(res, Other)

\* getReservations(): the ReservationMap object, owner id -> {paths, reason}
ReservationMap(res) ==
  [id \in {res[j].owner : j \in 1..Len(res)} |->
     [paths |-> ResGet(res, id).paths, reason |-> ResGet(res, id).reason]]

getReservations(st) == ReservationMap(st.reservations)

broadcastReservationsUpdated(st) ==
  broadcastAll(st, [type |-> "reservations_updated",
                    reservations |-> getReservations(st)])

(***************************************************************************)
(* Registration                                                            *)
(***************************************************************************)
Suffix(name, i) == name \o <<"-">> \o Digits(i)        \* `${name}-${i}`

RECURSIVE FirstFree(_, _, _)
FirstFree(n2i, name, i) ==
  IF MapHas(n2i, Suffix(name, i)) THEN FirstFree(n2i, name, i + 1) ELSE i

ResolveName(n2i, name) ==
  IF MapHas(n2i, name) THEN Suffix(name, FirstFree(n2i, name, 2)) ELSE name

NewInfo(id, name, t) ==
  [id |-> id, name |-> name, status |-> "idle", channels |-> <<>>,
   statusMessage |-> Undef, lastActivityAt |-> ToString(t)]

\* Faulty variant: the roster of `registered` is taken before the newcomer is inserted.
handleRegister_rosterBefore(st, w, msg, t) ==
  LET name == ResolveName(st.nameToId, msg.name)
      info == NewInfo(msg.id, name, t)
      agent == [info |-> info, ws |-> w, lastHeartbeat |-> t]
      st1 == [st EXCEPT !.agents = MapSet(@, msg.id, agent),
                        !.nameToId = MapSet(@, name, msg.id)]
      st2 == sendTo(st1, w, [type |-> "registered", id |-> msg.id,
                             agents |-> getAgents(st),
                             reservations |-> getReservations(st1)])
  IN broadcastExcept(st2, msg.id, [type |-> "agent_joined", agent |-> info])

handleRegister(st, w, msg, t) ==
  LET name == ResolveName(st.nameToId, msg.name)
      info == NewInfo(msg.id, name, t)
      agent == [info |-> info, ws |-> w, lastHeartbeat |-> t]
      st1 == [st EXCEPT !.agents = MapSet(@, msg.id, agent),
                        !.nameToId = MapSet(@, name, msg.id)]
      st2 == sendTo(st1, w, [type |-> "registered", id |-> msg.id,
                             agents |-> getAgents(st1),
                             reservations |-> getReservations(st1)])
  IN broadcastExcept(st2, msg.id, [type |-> "agent_joined", agent |-> info])

(***************************************************************************)
(* Disconnect                                                              *)
(***************************************************************************)
\* Faulty variant: the disconnecting agent stays in the channels' member sets.
handleDisconnect_keepsMembers(st, id) ==
  IF ~MapHas(st.agents, id) THEN st
  ELSE
    LET name == st.agents[id].info.name
        st1 == [st EXCEPT !.reservations = ResDelete(@, id),
                          !.agents = MapDelete(@, id),
                          !.nameToId = MapDelete(@, name)]
        st2 == broadcastExcept(st1, id, [type |-> "agent_left", id |-> id,
                                         name |-> name])
    IN IF ResHas(st.reservations, id) THEN broadcastReservationsUpdated(st2)
       ELSE st2

handleDisconnect(st, id) ==
  IF ~MapHas(st.agents, id) THEN st
  ELSE
    LET name == st.agents[id].info.name
        hadReservations == ResHas(st.reservations, id)
        chans == [c \in DOMAIN st.channels |->
                    [st.channels[c] EXCEPT !.members = @ \ {id}]]
        kept == {c \in DOMAIN chans : chans[c].members # {}}
        st1 == [st EXCEPT !.reservations = ResDelete(@, id),
                          !.channels = [c \in kept |-> chans[c]],
                          !.agents = MapDelete(@, id),
                          !.nameToId = MapDelete(@, name)]
        st2 == broadcastExcept(st1, id, [type |-> "agent_left", id |-> id,
                                         name |-> name])
    IN IF hadReservations THEN broadcastReservationsUpdated(st2) ELSE st2

disconnectAgentById(st, id) ==
  IF ~MapHas(st.agents, id) THEN st
  ELSE LET w == st.agents[id].ws
           closed == [st EXCEPT !.ready[w] = IF @ = "OPEN" THEN "CLOSING" ELSE @]
       IN handleDisconnect(closed, id)

disconnectAgentByName(st, name) ==
  IF ~MapHas(st.nameToId, name) THEN st
  ELSE disconnectAgentById(st, st.nameToId[name])

(***************************************************************************)
(* Reservation arbiter: normalizeReservationPath, reservationPathsOverlap, *)
(* dedupePaths                                                             *)
(***************************************************************************)
IsSlash(c) == c \in {"/", "\\"}                        \* /[\\/]/

\* p.replace(/\\/g, "/")
BackToForward(p) == [i \in 1..Len(p) |-> IF p[i] = "\\" THEN "/" ELSE p[i]]

\* p.replace(/\/+/g, "/")
RECURSIVE CollapseSlashes(_)
CollapseSlashes(p) ==
  IF Len(p) < 2 THEN p
  ELSE IF p[1] = "/" /\ p[2] = "/" THEN CollapseSlashes(Tail(p))
       ELSE <<p[1]>> \o CollapseSlashes(Tail(p))

\* p.replace(/\/+$/, "")
RECURSIVE StripTrailingSlashes(_)
StripTrailingSlashes(p) ==
  IF EndsWith(p, "/") THEN StripTrailingSlashes(DropLast(p)) ELSE p

\* Faulty variant: the mark of a directory is not put back.
normalizeReservationPath_dropsDirMark(raw) ==
  LET p == Trim(raw) IN
  IF p = <<>> THEN <<>>
  ELSE StripTrailingSlashes(CollapseSlashes(BackToForward(p)))

normalizeReservationPath(raw) ==
  LET p == Trim(raw) IN
  IF p = <<>> THEN <<>>
  ELSE LET isDir == IsSlash(p[Len(p)])
           q == CollapseSlashes(BackToForward(p))
           r == IF isDir THEN StripTrailingSlashes(q) \o <<"/">>
                ELSE StripTrailingSlashes(q)
       IN IF r = <<>> THEN (IF isDir THEN <<"/">> ELSE <<>>) ELSE r

\* Faulty variant: only equal paths conflict (the directory rules are lost).
reservationPathsOverlap_equalOnly(a, b) == a = b

reservationPathsOverlap(a, b) ==
  \/ a = b
  \/ EndsWith(a, "/") /\ (StartsWith(b, a) \/ b = DropLast(a))
  \/ EndsWith(b, "/") /\ (StartsWith(a, b) \/ a = DropLast(b))

InSeq(x, s) == \E i \in 1..Len(s) : s[i] = x

RECURSIVE dedupePaths(_)
dedupePaths(paths) ==
  IF paths = <<>> THEN <<>>
  ELSE LET init == dedupePaths(DropLast(paths))
           p == paths[Len(paths)]
       IN IF InSeq(p, init) THEN init ELSE Append(init, p)

MapSeq(s, f(_)) == [i \in 1..Len(s) |-> f(s[i])]

NonEmpty(p) == p # <<>>                                \* !!p

(***************************************************************************)
(* Message routing                                                         *)
(***************************************************************************)
Error(tpl, arg) == [type |-> "error", message |-> [tpl |-> tpl, arg |-> arg],
                    correlationId |-> Undef]
ErrorC(tpl, arg, corr) == [Error(tpl, arg) EXCEPT !.correlationId = corr]
\* The error records whose message has no variable part.
InvalidJsonError == Error("Invalid JSON", <<>>)
MustRegisterFirstError == Error("Must register first", <<>>)
NoValidPathsError == Error("No valid paths to reserve", <<>>)
EmptyNameError == Error("Name cannot be empty", <<>>)

\* The id a name resolves to and whose registry entry exists, else Null.
DmTarget(st, to) ==
  IF MapHas(st.nameToId, to) /\ MapHas(st.agents, st.nameToId[to])
  THEN st.nameToId[to] ELSE Null

\* Faulty variant: the forwarded dm loses its correlation id.
handleDm_dropsCorrelation(st, sid, msg) ==
  LET sender == st.agents[sid]
      targetId == DmTarget(st, msg.to) IN
  IF targetId = Null
  THEN sendTo(st, sender.ws,
              ErrorC("Agent \"$\" is not online", msg.to, msg.correlationId))
  ELSE sendTo(st, st.agents[targetId].ws,
              [type |-> "dm", from |-> sender.info.id,
               fromName |-> sender.info.name, content |-> msg.content,
               correlationId |-> Undef])

handleDm(st, sid, msg) ==
  LET sender == st.agents[sid]
      targetId == DmTarget(st, msg.to) IN
  IF targetId = Null
  THEN sendTo(st, sender.ws,
              ErrorC("Agent \"$\" is not online", msg.to, msg.correlationId))
  ELSE sendTo(st, st.agents[targetId].ws,
              [type |-> "dm", from |-> sender.info.id,
               fromName |-> sender.info.name, content |-> msg.content,
               correlationId |-> msg.correlationId])

handleDmResponse(st, sid, msg) ==
  LET sender == st.agents[sid]
      targetId == DmTarget(st, msg.to) IN
  IF targetId = Null THEN st
  ELSE sendTo(st, st.agents[targetId].ws,
              [type |-> "dm_response", from |-> sender.info.id,
               fromName |-> sender.info.name,
               correlationId |-> msg.correlationId, content |-> msg.content])

\* Faulty variant: the broadcast also goes back to its sender.
handleBroadcast_toAll(st, sid, msg) ==
  LET sender == st.agents[sid] IN
  broadcastAll(st, [type |-> "broadcast", from |-> sender.info.id,
                    fromName |-> sender.info.name, content |-> msg.content])

handleBroadcast(st, sid, msg) ==
  LET sender == st.agents[sid] IN
  broadcastExcept(st, sender.info.id,
                  [type |-> "broadcast", from |-> sender.info.id,
                   fromName |-> sender.info.name, content |-> msg.content])

(***************************************************************************)
(* Channels                                                                *)
(***************************************************************************)
\* Faulty variant: the channel is not added to the creator's channel list.
handleChannelCreate_listUntouched(st, sid, msg) ==
  LET sender == st.agents[sid] IN
  IF MapHas(st.channels, msg.channel)
  THEN sendTo(st, sender.ws,
              Error("Channel \"$\" already exists", <<msg.channel>>))
  ELSE LET channel == [members |-> {sender.info.id},
                       createdBy |-> sender.info.name]
           st1 == [st EXCEPT !.channels = MapSet(@, msg.channel, channel)]
       IN broadcastAll(st1, [type |-> "channel_created",
                             channel |-> msg.channel, by |-> sender.info.name])

handleChannelCreate(st, sid, msg) ==
  LET sender == st.agents[sid] IN
  IF MapHas(st.channels, msg.channel)
  THEN sendTo(st, sender.ws,
              Error("Channel \"$\" already exists", <<msg.channel>>))
  ELSE LET channel == [members |-> {sender.info.id},
                       createdBy |-> sender.info.name]
           st1 == [st EXCEPT !.channels = MapSet(@, msg.channel, channel),
                             !.agents[sid].info.channels = Append(@, msg.channel)]
       IN broadcastAll(st1, [type |-> "channel_created",
                             channel |-> msg.channel, by |-> sender.info.name])

\* sendTo for each member id that has a registry entry
SendToMembers(st, members, msg) ==
  [st EXCEPT !.sent =
     [w \in Sessions |->
        IF st.ready[w] = "OPEN"
        THEN st.sent[w] \o
             Repeat(msg, Cardinality({id \in members \cap DOMAIN st.agents :
                                         st.agents[id].ws = w}))
        ELSE st.sent[w]]]

handleChannelJoin(st, sid, msg) ==
  LET sender == st.agents[sid] IN
  IF ~MapHas(st.channels, msg.channel)
  THEN sendTo(st, sender.ws,
              Error("Channel \"$\" does not exist", <<msg.channel>>))
  ELSE LET st1 == [st EXCEPT
                     !.channels[msg.channel].members = @ \cup {sender.info.id},
                     !.agents[sid].info.channels =
                        IF InSeq(msg.channel, @) THEN @
                        ELSE Append(@, msg.channel)]
       IN SendToMembers(st1, st1.channels[msg.channel].members,
                        [type |-> "channel_joined", channel |-> msg.channel,
                         agentId |-> sender.info.id,
                         agentName |-> sender.info.name])

handleChannelLeave(st, sid, msg) ==
  LET sender == st.agents[sid] IN
  IF ~MapHas(st.channels, msg.channel)
  THEN sendTo(st, sender.ws,
              Error("Channel \"$\" does not exist", <<msg.channel>>))
  ELSE IF sender.info.id \notin st.channels[msg.channel].members
  THEN sendTo(st, sender.ws,
              Error("You are not a member of channel \"$\"", <<msg.channel>>))
  ELSE LET NotIt(c) == c # msg.channel
           left == [type |-> "channel_left", channel |-> msg.channel,
                    agentId |-> sender.info.id,
                    agentName |-> sender.info.name]
           st1 == [st EXCEPT
                     !.channels[msg.channel].members = @ \ {sender.info.id},
                     !.agents[sid].info.channels = SelectSeq(@, NotIt)]
           st2 == sendTo(st1, sender.ws, left)
           st3 == SendToMembers(st2, st1.channels[msg.channel].members, left)
       IN IF st1.channels[msg.channel].members = {}
          THEN [st3 EXCEPT !.channels = MapDelete(@, msg.channel)]
          ELSE st3

\* Faulty variant: the sender is not skipped among the members.
handleChannelSend_echoes(st, sid, msg) ==
  LET sender == st.agents[sid] IN
  IF ~MapHas(st.channels, msg.channel)
  THEN sendTo(st, sender.ws,
              Error("Channel \"$\" does not exist", <<msg.channel>>))
  ELSE IF sender.info.id \notin st.channels[msg.channel].members
  THEN sendTo(st, sender.ws,
              Error("You are not a member of channel \"$\"", <<msg.channel>>))
  ELSE LET st1 == SendToMembers(st, st.channels[msg.channel].members,
                                [type |-> "channel_message",
                                 channel |-> msg.channel,
                                 from |-> sender.info.id,
                                 fromName |-> sender.info.name,
                                 content |-> msg.content])
       IN sendTo(st1, sender.ws,
                 [type |-> "channel_sent", channel |-> msg.channel])

handleChannelSend(st, sid, msg) ==
  LET sender == st.agents[sid] IN
  IF ~MapHas(st.channels, msg.channel)
  THEN sendTo(st, sender.ws,
              Error("Channel \"$\" does not exist", <<msg.channel>>))
  ELSE IF sender.info.id \notin st.channels[msg.channel].members
  THEN sendTo(st, sender.ws,
              Error("You are not a member of channel \"$\"", <<msg.channel>>))
  ELSE LET st1 == SendToMembers(st, st.channels[msg.channel].members
                                      \ {sender.info.id},
                                [type |-> "channel_message",
                                 channel |-> msg.channel,
                                 from |-> sender.info.id,
                                 fromName |-> sender.info.name,
                                 content |-> msg.content])
       IN sendTo(st1, sender.ws,
                 [type |-> "channel_sent", channel |-> msg.channel])

\* The message handler's reply to a frame that does not parse.
InvalidJson(st, w) == sendTo(st, w, InvalidJsonError)

\* Faulty variant: a record sent before register is dropped silently.
MustRegisterFirst_silent(st, w) == st

\* The message handler's reply to a record other than register on a session
\* whose agentId is still null.
MustRegisterFirst(st, w) == sendTo(st, w, MustRegisterFirstError)

(***************************************************************************)
(* Status and presence                                                     *)
(***************************************************************************)
\* x || undefined, for a string or an absent field
OrUndefined(x) == IF x \in {Undef, ""} THEN Undef ELSE x

handlePresenceUpdate(st, sid, msg) ==
  LET sender == st.agents[sid]
      st1 == [st EXCEPT
                !.agents[sid].info.statusMessage = OrUndefined(msg.statusMessage),
                !.agents[sid].info.lastActivityAt = msg.lastActivityAt]
      info == st1.agents[sid].info
  IN broadcastExcept(st1, info.id,
                     [type |-> "status_changed", id |-> info.id,
                      name |-> info.name, status |-> info.status,
                      statusMessage |-> msg.statusMessage,
                      lastActivityAt |-> info.lastActivityAt])

handleStatusUpdate(st, sid, msg) ==
  LET sender == st.agents[sid]
      st1 == [st EXCEPT !.agents[sid].info.status = msg.status]
      info == st1.agents[sid].info
  IN broadcastExcept(st1, info.id,
                     [type |-> "status_changed", id |-> info.id,
                      name |-> info.name, status |-> msg.status,
                      statusMessage |-> info.statusMessage,
                      lastActivityAt |-> info.lastActivityAt])

(***************************************************************************)
(* Reserve and release                                                     *)
(***************************************************************************)
NormalizedPaths(paths) ==
  SelectSeq(MapSeq(paths, normalizeReservationPath), NonEmpty)

\* Faulty variant: the scan does not skip the sender's own entry.
ConflictHits_includesOwn(res, sid, normalized) ==
  {h \in (1..Len(normalized)) \X (1..Len(res)) :
     \E k \in 1..Len(res[h[2]].paths) :
       reservationPathsOverlap(normalized[h[1]], res[h[2]].paths[k])}

\* The conflict scan: for each target path, for each other owner's entry, for
\* each reserved path; the hits <<i, j>> and the first one met.
ConflictHits(res, sid, normalized) ==
  {h \in (1..Len(normalized)) \X (1..Len(res)) :
     /\ res[h[2]].owner # sid
     /\ \E k \in 1..Len(res[h[2]].paths) :
          reservationPathsOverlap(normalized[h[1]], res[h[2]].paths[k])}

FirstHit(hits) ==
  CHOOSE h \in hits : \A g \in hits :
     h[1] < g[1] \/ (h[1] = g[1] /\ h[2] <= g[2])

\* Faulty variant: a reserve without a reason erases the stored reason.
handleReserve_overwritesReason(st, sid, msg) ==
  LET sender == st.agents[sid]
      normalized == dedupePaths(NormalizedPaths(msg.paths))
      hits == ConflictHits(st.reservations, sid, normalized) IN
  IF Len(normalized) = 0
  THEN sendTo(st, sender.ws, NoValidPathsError)
  ELSE IF hits # {}
  THEN LET reservation == st.reservations[FirstHit(hits)[2]]
           ownerId == reservation.owner
           ownerName == IF MapHas(st.agents, ownerId)
                           /\ st.agents[ownerId].info.name # <<>>
                        THEN st.agents[ownerId].info.name ELSE <<ownerId>>
           reasonText == IF reservation.reason \in {Undef, ""} THEN ""
                         ELSE reservation.reason
       IN sendTo(st, sender.ws,
                 [type |-> "error",
                  message |-> [tpl |-> "File reserved by $1$2", arg |-> ownerName,
                               reason |-> reasonText],
                  correlationId |-> Undef])
  ELSE LET has == ResHas(st.reservations, sender.info.id)
           existingPaths == IF has THEN ResGet(st.reservations, sender.info.id).paths
                            ELSE <<>>
           existingReason == IF has THEN ResGet(st.reservations, sender.info.id).reason
                             ELSE Undef
           merged == dedupePaths(existingPaths \o normalized)
           reason == msg.reason
       IN broadcastReservationsUpdated(
            [st EXCEPT !.reservations = ResSet(@, sender.info.id, merged, reason)])

handleReserve(st, sid, msg) ==
  LET sender == st.agents[sid]
      normalized == dedupePaths(NormalizedPaths(msg.paths))
      hits == ConflictHits(st.reservations, sid, normalized) IN
  IF Len(normalized) = 0
  THEN sendTo(st, sender.ws, NoValidPathsError)
  ELSE IF hits # {}
  THEN LET reservation == st.reservations[FirstHit(hits)[2]]
           ownerId == reservation.owner
           ownerName == IF MapHas(st.agents, ownerId)
                           /\ st.agents[ownerId].info.name # <<>>
                        THEN st.agents[ownerId].info.name ELSE <<ownerId>>
           reasonText == IF reservation.reason \in {Undef, ""} THEN ""
                         ELSE reservation.reason
       IN sendTo(st, sender.ws,
                 [type |-> "error",
                  message |-> [tpl |-> "File reserved by $1$2", arg |-> ownerName,
                               reason |-> reasonText],
                  correlationId |-> Undef])
  ELSE LET has == ResHas(st.reservations, sender.info.id)
           existingPaths == IF has THEN ResGet(st.reservations, sender.info.id).paths
                            ELSE <<>>
           existingReason == IF has THEN ResGet(st.reservations, sender.info.id).reason
                             ELSE Undef
           merged == dedupePaths(existingPaths \o normalized)
           reason == IF msg.reason # Undef THEN msg.reason ELSE existingReason
       IN broadcastReservationsUpdated(
            [st EXCEPT !.reservations = ResSet(@, sender.info.id, merged, reason)])

\* Faulty variant: the named paths are compared without being normalized.
handleRelease_rawPaths(st, sid, msg) ==
  LET sender == st.agents[sid] IN
  IF ~ResHas(st.reservations, sender.info.id)
  THEN broadcastReservationsUpdated(st)
  ELSE IF msg.paths = <<>>
  THEN broadcastReservationsUpdated(
         [st EXCEPT !.reservations = ResDelete(@, sender.info.id)])
  ELSE LET existing == ResGet(st.reservations, sender.info.id)
           toRelease == msg.paths
           Kept(p) == ~InSeq(p, toRelease)
           remaining == SelectSeq(existing.paths, Kept)
       IN broadcastReservationsUpdated(
            [st EXCEPT !.reservations =
               IF Len(remaining) = 0 THEN ResDelete(@, sender.info.id)
               ELSE ResSet(@, sender.info.id, remaining, existing.reason)])

\* msg.paths = <<>> stands for an absent or empty paths field (the handler
\* takes the same branch for both).
\* Faulty variant: a release gives up everything the sender holds.
handleRelease_dropsAll(st, sid, msg) ==
  LET sender == st.agents[sid] IN
  broadcastReservationsUpdated(
    [st EXCEPT !.reservations = ResDelete(@, sender.info.id)])

handleRelease(st, sid, msg) ==
  LET sender == st.agents[sid] IN
  IF ~ResHas(st.reservations, sender.info.id)
  THEN broadcastReservationsUpdated(st)
  ELSE IF msg.paths = <<>>
  THEN broadcastReservationsUpdated(
         [st EXCEPT !.reservations = ResDelete(@, sender.info.id)])
  ELSE LET existing == ResGet(st.reservations, sender.info.id)
           toRelease == NormalizedPaths(msg.paths)
           Kept(p) == ~InSeq(p, toRelease)
           remaining == SelectSeq(existing.paths, Kept)
       IN broadcastReservationsUpdated(
            [st EXCEPT !.reservations =
               IF Len(remaining) = 0 THEN ResDelete(@, sender.info.id)
               ELSE ResSet(@, sender.info.id, remaining, existing.reason)])

(***************************************************************************)
(* Rename, heartbeat, reaper                                               *)
(***************************************************************************)
\* Faulty variant: the old name stays in the name map.
handleRename_keepsOldName(st, sid, msg) ==
  LET sender == st.agents[sid]
      newName == Trim(msg.name)
      oldName == sender.info.name IN
  IF newName = <<>>
  THEN sendTo(st, sender.ws, EmptyNameError)
  ELSE IF MapHas(st.nameToId, newName) /\ st.nameToId[newName] # sender.info.id
  THEN sendTo(st, sender.ws,
              Error("Agent name \"$\" is already taken", newName))
  ELSE LET st1 == IF oldName # newName
                  THEN [st EXCEPT
                          !.nameToId = MapSet(@, newName,
                                              sender.info.id),
                          !.agents[sid].info.name = newName,
                          !.channels = [c \in DOMAIN @ |->
                             IF @[c].createdBy = oldName
                             THEN [@[c] EXCEPT !.createdBy = newName]
                             ELSE @[c]]]
                  ELSE st
       IN broadcastAll(st1, [type |-> "agent_renamed", id |-> sender.info.id,
                             oldName |-> oldName, newName |-> newName])

\* Faulty variant: a name held by another agent is not refused.
handleRename_ignoresTaken(st, sid, msg) ==
  LET sender == st.agents[sid]
      newName == Trim(msg.name)
      oldName == sender.info.name IN
  IF newName = <<>>
  THEN sendTo(st, sender.ws, EmptyNameError)
  ELSE IF FALSE
  THEN sendTo(st, sender.ws,
              Error("Agent name \"$\" is already taken", newName))
  ELSE LET st1 == IF oldName # newName
                  THEN [st EXCEPT
                          !.nameToId = MapSet(MapDelete(@, oldName), newName,
                                              sender.info.id),
                          !.agents[sid].info.name = newName,
                          !.channels = [c \in DOMAIN @ |->
                             IF @[c].createdBy = oldName
                             THEN [@[c] EXCEPT !.createdBy = newName]
                             ELSE @[c]]]
                  ELSE st
       IN broadcastAll(st1, [type |-> "agent_renamed", id |-> sender.info.id,
                             oldName |-> oldName, newName |-> newName])

\* Faulty variant: a rename to the name the sender has sends nothing.
handleRename_silentNoop(st, sid, msg) ==
  LET sender == st.agents[sid]
      newName == Trim(msg.name)
      oldName == sender.info.name IN
  IF newName = <<>>
  THEN sendTo(st, sender.ws, EmptyNameError)
  ELSE IF MapHas(st.nameToId, newName) /\ st.nameToId[newName] # sender.info.id
  THEN sendTo(st, sender.ws,
              Error("Agent name \"$\" is already taken", newName))
  ELSE IF oldName = newName THEN st
  ELSE broadcastAll(
         [st EXCEPT
            !.nameToId = MapSet(MapDelete(@, oldName), newName, sender.info.id),
            !.agents[sid].info.name = newName,
            !.channels = [c \in DOMAIN @ |->
               IF @[c].createdBy = oldName
               THEN [@[c] EXCEPT !.createdBy = newName]
               ELSE @[c]]],
         [type |-> "agent_renamed", id |-> sender.info.id,
          oldName |-> oldName, newName |-> newName])

handleRename(st, sid, msg) ==
  LET sender == st.agents[sid]
      newName == Trim(msg.name)
      oldName == sender.info.name IN
  IF newName = <<>>
  THEN sendTo(st, sender.ws, EmptyNameError)
  ELSE IF MapHas(st.nameToId, newName) /\ st.nameToId[newName] # sender.info.id
  THEN sendTo(st, sender.ws,
              Error("Agent name \"$\" is already taken", newName))
  ELSE LET st1 == IF oldName # newName
                  THEN [st EXCEPT
                          !.nameToId = MapSet(MapDelete(@, oldName), newName,
                                              sender.info.id),
                          !.agents[sid].info.name = newName,
                          !.channels = [c \in DOMAIN @ |->
                             IF @[c].createdBy = oldName
                             THEN [@[c] EXCEPT !.createdBy = newName]
                             ELSE @[c]]]
                  ELSE st
       IN broadcastAll(st1, [type |-> "agent_renamed", id |-> sender.info.id,
                             oldName |-> oldName, newName |-> newName])

\* Faulty variant: every registered agent is sent the ack.
handleHeartbeat_acksAll(st, sid, t) ==
  broadcastAll([st EXCEPT !.agents[sid].lastHeartbeat = t],
               [type |-> "heartbeat_ack"])

handleHeartbeat(st, sid, t) ==
  sendTo([st EXCEPT !.agents[sid].lastHeartbeat = t], st.agents[sid].ws,
         [type |-> "heartbeat_ack"])

\* Faulty variant: an agent is expired at the timeout already.
Expired_atTimeout(agent, t) == t - agent.lastHeartbeat >= HeartbeatTimeout

Expired(agent, t) == t - agent.lastHeartbeat > HeartbeatTimeout

\* The sweep visits the registry's entries in Map order; `order` is that order.
RECURSIVE checkHeartbeats(_, _, _)
checkHeartbeats(st, order, t) ==
  IF order = <<>> THEN st
  ELSE LET id == Head(order) IN
       IF MapHas(st.agents, id) /\ Expired(st.agents[id], t)
       THEN checkHeartbeats(disconnectAgentById(st, id), Tail(order), t)
       ELSE checkHeartbeats(st, Tail(order), t)

(***************************************************************************)
(* The client's Inbox                                                      *)
(***************************************************************************)
\* The fields of a new Inbox, with what the last event passed to
\* client.send (sends) and to pi.sendUserMessage without a throw (injects).
NoReply == [agentName |-> <<>>, correlationId |-> Null]   \* null, undefined
InboxInit ==
  [queue |-> <<>>, processing |-> FALSE, agentBusy |-> FALSE,
   pendingReply |-> NoReply, settleTimer |-> FALSE,
   sends |-> <<>>, injects |-> <<>>]

Quiet(ib) == [ib EXCEPT !.sends = <<>>, !.injects = <<>>]

\* clearTimeout of a pending timer, then setTimeout
scheduleProcessNext(ib) == [ib EXCEPT !.settleTimer = TRUE]

\* A faulty variant: the newest record goes to the front of the queue.
enqueue_atFront(ib, msg) ==
  LET ib1 == [ib EXCEPT !.queue = <<msg>> \o @] IN
  IF ~ib1.processing /\ ~ib1.agentBusy THEN scheduleProcessNext(ib1) ELSE ib1

\* Faulty variant: an arrival never schedules a dispatch.
enqueue_unscheduled(ib, msg) == [ib EXCEPT !.queue = Append(@, msg)]

enqueue(ib, msg) ==
  LET ib1 == [ib EXCEPT !.queue = Append(@, msg)] IN
  IF ~ib1.processing /\ ~ib1.agentBusy THEN scheduleProcessNext(ib1) ELSE ib1

Truthy(x) == x \notin {Undef, ""}

handleBrokerMessage(ib, msg) ==
  CASE msg.type = "dm" ->
         IF Truthy(msg.correlationId)
         THEN enqueue(ib, [label |-> <<"From ">> \o msg.fromName,
                           content |-> msg.content,
                           replyTo |-> [agentName |-> msg.fromName,
                                        correlationId |-> msg.correlationId]])
         ELSE enqueue(ib, [label |-> <<"From ">> \o msg.fromName,
                           content |-> msg.content, replyTo |-> NoReply])
    [] msg.type = "broadcast" ->
         enqueue(ib, [label |-> <<"Broadcast from ">> \o msg.fromName,
                      content |-> msg.content, replyTo |-> NoReply])
    [] msg.type = "channel_message" ->
         enqueue(ib, [label |-> <<"#", msg.channel, " from ">> \o msg.fromName,
                      content |-> msg.content, replyTo |-> NoReply])
    [] OTHER -> ib

\* Faulty variant: the pending settle timer is left running.
onAgentStart_keepsTimer(ib) == [ib EXCEPT !.agentBusy = TRUE]

onAgentStart(ib) == [ib EXCEPT !.agentBusy = TRUE, !.settleTimer = FALSE]

\* The last text part, of the last assistant message that has one, whose
\* trimmed text is not empty; "" when there is none.  A message without
\* content and a part without text are an empty content and an empty text:
\* the walk passes both by.
IsTextPart(part) == part.type = "text" /\ Trim(part.text) # <<>>
RECURSIVE LastTextPart(_)
LastTextPart(content) ==
  IF content = <<>> THEN <<>>
  ELSE IF IsTextPart(content[Len(content)]) THEN content[Len(content)].text
  ELSE LastTextPart(DropLast(content))

RECURSIVE extractLastAssistantText(_)
extractLastAssistantText(messages) ==
  IF messages = <<>> THEN <<>>
  ELSE LET msg == messages[Len(messages)] IN
       IF msg.role = "assistant" /\ LastTextPart(msg.content) # <<>>
       THEN LastTextPart(msg.content)
       ELSE extractLastAssistantText(DropLast(messages))

\* (the source writes a long dash in this literal)
NoTextResponse == <<"(agent processing - no text response produced)">>
FailedToDeliver == <<"(failed to deliver message to agent)">>

\* Faulty variant: the reply is sent but the pending reply is kept.
onAgentEnd_keepsPending(ib, messages) ==
  LET ib1 == [ib EXCEPT !.agentBusy = FALSE]
      trimmed == Trim(extractLastAssistantText(messages))
      ib2 == IF ib1.pendingReply # NoReply
             THEN [ib1 EXCEPT
                     !.sends = Append(@,
                        [type |-> "dm_response",
                         to |-> ib1.pendingReply.agentName,
                         correlationId |-> ib1.pendingReply.correlationId,
                         content |-> IF trimmed # <<>> THEN trimmed
                                     ELSE NoTextResponse]),
                     !.processing = FALSE]
             ELSE IF ib1.processing THEN [ib1 EXCEPT !.processing = FALSE]
             ELSE ib1
  IN scheduleProcessNext(ib2)

onAgentEnd(ib, messages) ==
  LET ib1 == [ib EXCEPT !.agentBusy = FALSE]
      trimmed == Trim(extractLastAssistantText(messages))
      ib2 == IF ib1.pendingReply # NoReply
             THEN [ib1 EXCEPT
                     !.sends = Append(@,
                        [type |-> "dm_response",
                         to |-> ib1.pendingReply.agentName,
                         correlationId |-> ib1.pendingReply.correlationId,
                         content |-> IF trimmed # <<>> THEN trimmed
                                     ELSE NoTextResponse]),
                     !.pendingReply = NoReply,
                     !.processing = FALSE]
             ELSE IF ib1.processing THEN [ib1 EXCEPT !.processing = FALSE]
             ELSE ib1
  IN scheduleProcessNext(ib2)

\* What pi.sendUserMessage does with the two attempts: the first succeeds,
\* the first throws and the follow-up succeeds, or both throw.
Outcomes == {"ok", "followUp", "fail"}

InjectedText(msg) == <<"[">> \o msg.label \o <<"]: ", msg.content>>

\* Faulty variant: taking a record does not set the processing flag.
processNext_leavesIdle(ib, outcome) ==
  IF ib.processing \/ ib.agentBusy \/ Len(ib.queue) = 0 THEN ib
  ELSE LET msg == Head(ib.queue)
           ib1 == [ib EXCEPT !.queue = Tail(@),
                             !.pendingReply = IF msg.replyTo # NoReply
                                              THEN msg.replyTo ELSE @]
           text == InjectedText(msg)
       IN CASE outcome = "ok" ->
                 [ib1 EXCEPT !.injects = Append(@, [text |-> text,
                                                    deliverAs |-> Undef])]
            [] outcome = "followUp" ->
                 [ib1 EXCEPT !.injects = Append(@, [text |-> text,
                                                    deliverAs |-> "followUp"])]
            [] outcome = "fail" ->
                 LET ib2 == IF ib1.pendingReply # NoReply
                            THEN [ib1 EXCEPT
                                    !.sends = Append(@,
                                       [type |-> "dm_response",
                                        to |-> ib1.pendingReply.agentName,
                                        correlationId |->
                                          ib1.pendingReply.correlationId,
                                        content |-> FailedToDeliver]),
                                    !.pendingReply = NoReply]
                            ELSE ib1
                 IN scheduleProcessNext([ib2 EXCEPT !.processing = FALSE])

processNext(ib, outcome) ==
  IF ib.processing \/ ib.agentBusy \/ Len(ib.queue) = 0 THEN ib
  ELSE LET msg == Head(ib.queue)
           ib1 == [ib EXCEPT !.processing = TRUE, !.queue = Tail(@),
                             !.pendingReply = IF msg.replyTo # NoReply
                                              THEN msg.replyTo ELSE @]
           text == InjectedText(msg)
       IN CASE outcome = "ok" ->
                 [ib1 EXCEPT !.injects = Append(@, [text |-> text,
                                                    deliverAs |-> Undef])]
            [] outcome = "followUp" ->
                 [ib1 EXCEPT !.injects = Append(@, [text |-> text,
                                                    deliverAs |-> "followUp"])]
            [] outcome = "fail" ->
                 LET ib2 == IF ib1.pendingReply # NoReply
                            THEN [ib1 EXCEPT
                                    !.sends = Append(@,
                                       [type |-> "dm_response",
                                        to |-> ib1.pendingReply.agentName,
                                        correlationId |->
                                          ib1.pendingReply.correlationId,
                                        content |-> FailedToDeliver]),
                                    !.pendingReply = NoReply]
                            ELSE ib1
                 IN scheduleProcessNext([ib2 EXCEPT !.processing = FALSE])

\* The settle timer's callback.
onSettleTimer(ib, outcome) == processNext([ib EXCEPT !.settleTimer = FALSE], outcome)

\* What the Inbox has seen and done.  Arrivals are numbered 1, 2, ...
HistInit ==
  [arrived |-> 0,       \* records handed to handleBrokerMessage
   recs |-> <<>>,       \* those records, by number
   midTurn |-> {},      \* records that arrived during a turn
   endSeen |-> {},      \* queued records that have seen a turn end since
   done |-> <<>>,       \* records taken off the queue: injected or dropped
   inflight |-> {},     \* records injected and not yet followed by agent_end
   pendingId |-> 0,     \* the injected correlated dm still owed a reply
   replies |-> <<>>,    \* every dm_response sent, with the dm it answers
   armedBy |-> "none",  \* what the pending settle timer goes back to
   last |-> [type |-> "init"]]  \* the last event; the messages of an
                                \* agent_end that found a dm owed a reply

(***************************************************************************)
(* The client's caches and its write guard                                 *)
(***************************************************************************)
\* The tool_call handler's answer: nothing, or a block with its reason.
NoBlock == [block |-> FALSE, reason |-> <<>>]
NoCall == [toolName |-> "", path |-> <<>>]

\* knownAgents and reservations in insertion order (Map, Object.entries);
\* call and result are the last tool call announced since the connection and
\* the caches last changed, and the handler's answer to it.
\* listeners is the array of message handlers; dispatch is the last record
\* the message handler took, with the listeners and the known agents it found
\* and the listeners it invoked, each with the known agents it saw and what
\* it did.
NoDispatch ==
  [msg |-> [type |-> "none"], listeners |-> <<>>, known |-> <<>>,
   invoked |-> <<>>]
\* chat is a call of the hive_chat tool: its promise (settled is what the
\* first resolve or reject made it, calls counts them), its timer, its abort
\* listener; first is the first event that ends the wait, as it happened.
Unsettled == [kind |-> "pending", text |-> ""]
NoEvent == [kind |-> "none", text |-> ""]
NoChat ==
  [state |-> "idle", agent |-> <<>>, correlationId |-> "", timer |-> FALSE,
   abortListener |-> FALSE, aborted |-> FALSE, settled |-> Unsettled,
   calls |-> 0, first |-> NoEvent]
ClientInit ==
  [connected |-> FALSE, knownAgents |-> <<>>, reservations |-> <<>>,
   call |-> NoCall, result |-> NoBlock, listeners |-> <<>>,
   dispatch |-> NoDispatch, chat |-> NoChat]

\* s.split("/")
RECURSIVE SplitSlash(_)
SplitSlash(s) ==
  IF s = <<>> THEN << <<>> >>
  ELSE LET rest == SplitSlash(Tail(s)) IN
       IF s[1] = "/" THEN << <<>> >> \o rest
       ELSE << <<s[1]>> \o rest[1] >> \o Tail(rest)

\* The segments that remain when "", "." and ".." are resolved.
RECURSIVE ResolveSegments(_, _)
ResolveSegments(segs, acc) ==
  IF segs = <<>> THEN acc
  ELSE LET seg == Head(segs) IN
       ResolveSegments(Tail(segs),
         IF seg = <<>> \/ seg = <<".">> THEN acc
         ELSE IF seg = <<".", ".">>
              THEN (IF acc = <<>> THEN acc ELSE DropLast(acc))
              ELSE Append(acc, seg))

RECURSIVE JoinSlash(_)
JoinSlash(segs) ==
  IF segs = <<>> THEN <<>> ELSE <<"/">> \o Head(segs) \o JoinSlash(Tail(segs))

\* path.isAbsolute and path.resolve(cwd, value) of node:path (posix) for an
\* absolute cwd.
IsAbsolute(value) == StartsWith(value, "/")
Resolve(cwd, value) ==
  LET segs == ResolveSegments(SplitSlash(cwd \o <<"/">> \o value), <<>>) IN
  IF segs = <<>> THEN <<"/">> ELSE JoinSlash(segs)

\* normalizeReservationPath(raw, cwd) of the client
clientNormalizeReservationPath(raw, cwd) ==
  LET value == Trim(raw) IN
  IF value = <<>> THEN <<>>
  ELSE LET isDir == IsSlash(value[Len(value)])
           abs == IF cwd # <<>> /\ ~IsAbsolute(value) THEN Resolve(cwd, value)
                  ELSE value
           q == CollapseSlashes(BackToForward(abs))
           r == IF isDir THEN StripTrailingSlashes(q) \o <<"/">>
                ELSE StripTrailingSlashes(q)
       IN IF r = <<>> THEN (IF isDir THEN <<"/">> ELSE <<>>) ELSE r

NoConflict == [ownerId |-> Null, reason |-> Undef]

\* Faulty variant: the agent's own reservations count as well.
RECURSIVE findReservationConflict_includesSelf(_, _, _)
findReservationConflict_includesSelf(cache, targetPath, selfAgentId) ==
  IF cache = <<>> THEN NoConflict
  ELSE LET e == Head(cache) IN
       IF \E i \in 1..Len(e.paths) : reservationPathsOverlap(targetPath, e.paths[i])
       THEN [ownerId |-> e.owner, reason |-> e.reason]
       ELSE findReservationConflict_includesSelf(Tail(cache), targetPath, selfAgentId)

RECURSIVE findReservationConflict(_, _, _)
findReservationConflict(cache, targetPath, selfAgentId) ==
  IF cache = <<>> THEN NoConflict
  ELSE LET e == Head(cache) IN
       IF /\ e.owner # selfAgentId
          /\ \E i \in 1..Len(e.paths) :
               reservationPathsOverlap(targetPath, e.paths[i])
       THEN [ownerId |-> e.owner, reason |-> e.reason]
       ELSE findReservationConflict(Tail(cache), targetPath, selfAgentId)

\* getKnownAgents().find(a => a.id === ownerId)?.name || ownerId
OwnerName(cl, ownerId) ==
  IF \E i \in 1..Len(cl.knownAgents) : cl.knownAgents[i].id = ownerId
  THEN LET i == CHOOSE k \in 1..Len(cl.knownAgents) :
                  /\ cl.knownAgents[k].id = ownerId
                  /\ \A j \in 1..(k - 1) : cl.knownAgents[j].id # ownerId
       IN IF Truthy(cl.knownAgents[i].name) THEN cl.knownAgents[i].name
          ELSE ownerId
  ELSE ownerId

\* pi.on("tool_call"): the reservation enforcement
onToolCall(cl, toolName, inputPath, selfAgentId, cwd) ==
  IF toolName \notin {"edit", "write"} THEN NoBlock
  ELSE IF ~cl.connected THEN NoBlock
  ELSE IF Trim(inputPath) = <<>> THEN NoBlock
  ELSE LET targetPath == clientNormalizeReservationPath(inputPath, cwd) IN
       IF targetPath = <<>> THEN NoBlock
       ELSE LET conflict ==
                  findReservationConflict(cl.reservations, targetPath, selfAgentId)
            IN IF conflict = NoConflict THEN NoBlock
               ELSE [block |-> TRUE,
                     reason |->
                       <<"File reserved by ", OwnerName(cl, conflict.ownerId)>>
                       \o (IF Truthy(conflict.reason)
                           THEN <<": ", conflict.reason>> ELSE <<>>)]

\* The agent of this client, its working directory, and what the broker and
\* the runtime hand to it.
SelfId == "me"
Cwd == <<"/", "w">>
ToolNames == {"edit", "write", "read"}
ToolPaths ==
  {<<"/", "w", "/", "s", "/", "a">>, <<"s", "/", "a", " ">>,
   <<".", "/", "s", "\\">>, <<" ">>, <<".", ".", "/", "x">>, <<".", ".">>}
CachedPaths ==
  {<<"/", "w", "/", "s", "/">>, <<"/", "w", "/", "s", "/", "a">>, <<"/">>}
CacheOwners == {SelfId, "b", "c"}
\* b gives a reason for what it reserves, c gives none.
ReasonOf(owner) == IF owner = "c" THEN Undef ELSE "wip"
CacheEntries ==
  {[owner |-> o, paths |-> <<p>>, reason |-> ReasonOf(o)] :
     o \in CacheOwners, p \in CachedPaths}
\* Owners a cached reservation map holds at most.
MaxCached == 2
RECURSIVE CachesOf(_)
CachesOf(n) ==
  IF n = 0 THEN {<<>>}
  ELSE LET less == CachesOf(n - 1) IN
       less \cup {Append(c, e) : c \in less, e \in CacheEntries}
ReservationCaches ==
  {c \in CachesOf(MaxCached) :
     \A i, j \in 1..Len(c) : c[i].owner = c[j].owner => i = j}
KnownAgentLists ==
  {<<>>, <<[id |-> "b", name |-> "bob"]>>, <<[id |-> "b", name |-> ""]>>}

\* The client's replica of the registry (knownAgents), fed by the records it
\* receives: a sequence of AgentInfo in the Map's order. A roster is taken in
\* the order of the ids; the order is read only by getAgentByName.
RECURSIVE Roster(_, _)
Roster(infos, i) ==
  IF i > Len(IdOrder) THEN <<>>
  ELSE (IF \E a \in infos : a.id = IdOrder[i]
        THEN <<CHOOSE a \in infos : a.id = IdOrder[i]>> ELSE <<>>)
       \o Roster(infos, i + 1)
KnownIndex(known, id) ==
  IF \E i \in 1..Len(known) : known[i].id = id
  THEN CHOOSE i \in 1..Len(known) : known[i].id = id ELSE 0
\* getAgentByName: the first entry with the name
NamedIndex(known, name) ==
  IF \E i \in 1..Len(known) : known[i].name = name
  THEN CHOOSE i \in 1..Len(known) :
         known[i].name = name /\ \A j \in 1..(i - 1) : known[j].name # name
  ELSE 0
Includes(seq, x) == \E i \in 1..Len(seq) : seq[i] = x
RECURSIVE Filtered(_, _)
Filtered(seq, x) ==
  IF seq = <<>> THEN <<>>
  ELSE (IF Head(seq) = x THEN <<>> ELSE <<Head(seq)>>) \o Filtered(Tail(seq), x)
clientHandleBrokerMessage(known, msg) ==
  CASE msg.type \in {"registered", "agent_list"} -> Roster(msg.agents, 1)
    [] msg.type = "agent_joined" ->
         LET i == KnownIndex(known, msg.agent.id) IN
         IF i # 0 THEN [known EXCEPT ![i] = msg.agent]
         ELSE Append(known, msg.agent)
    [] msg.type = "agent_left" ->
         LET i == KnownIndex(known, msg.id) IN
         IF i # 0 THEN SubSeq(known, 1, i - 1) \o SubSeq(known, i + 1, Len(known))
         ELSE known
    [] msg.type = "agent_renamed" ->
         LET i == KnownIndex(known, msg.id) IN
         IF i # 0 THEN [known EXCEPT ![i].name = msg.newName] ELSE known
    [] msg.type = "status_changed" ->
         LET i == KnownIndex(known, msg.id) IN
         IF i # 0
         THEN [known EXCEPT
                 ![i].status = msg.status,
                 ![i].statusMessage = IF "statusMessage" \in DOMAIN msg
                                      THEN OrUndefined(msg.statusMessage) ELSE @,
                 ![i].lastActivityAt = IF "lastActivityAt" \in DOMAIN msg
                                       THEN msg.lastActivityAt ELSE @]
         ELSE known
    [] msg.type = "channel_created" ->
         LET i == NamedIndex(known, msg.by) IN
         IF i # 0 /\ ~Includes(known[i].channels, msg.channel)
         THEN [known EXCEPT ![i].channels = Append(@, msg.channel)] ELSE known
    [] msg.type = "channel_joined" ->
         LET i == KnownIndex(known, msg.agentId) IN
         IF i # 0 /\ ~Includes(known[i].channels, msg.channel)
         THEN [known EXCEPT ![i].channels = Append(@, msg.channel)] ELSE known
    [] msg.type = "channel_left" ->
         LET i == KnownIndex(known, msg.agentId) IN
         IF i # 0 THEN [known EXCEPT ![i].channels = Filtered(@, msg.channel)]
         ELSE known
    [] OTHER -> known
\* The reservation cache: the record's map, entry by entry (the entries are
\* taken in the order of the ids; the order decides only which of several
\* conflicts the write guard names).
RECURSIVE CacheOf(_, _)
CacheOf(map, i) ==
  IF i > Len(IdOrder) THEN <<>>
  ELSE (IF IdOrder[i] \in DOMAIN map
        THEN <<[owner |-> IdOrder[i], paths |-> map[IdOrder[i]].paths,
                reason |-> map[IdOrder[i]].reason]>>
        ELSE <<>>) \o CacheOf(map, i + 1)
clientHandleReservations_registeredOnly(cache, msg) ==
  IF msg.type = "registered" THEN CacheOf(msg.reservations, 1) ELSE cache
clientHandleReservations(cache, msg) ==
  IF msg.type \in {"registered", "reservations_updated"}
  THEN CacheOf(msg.reservations, 1) ELSE cache

\* handleBrokerMessage: both caches
Handled(cl, msg) ==
  [cl EXCEPT !.knownAgents = clientHandleBrokerMessage(@, msg),
             !.reservations = clientHandleReservations(@, msg)]

\* The records of a wire, handled in the order they arrive.
RECURSIVE Fed(_, _)
Fed(cl, wire) ==
  IF wire = <<>> THEN cl
  ELSE Fed(Handled(cl, Head(wire)), Tail(wire))

\* Message handlers, and what one does when it is invoked: nothing, or a
\* call of onMessage or offMessage.
Handlers == {"h1", "h2", "h3"}
MaxListeners == 2
NoOp == [do |-> "none", h |-> ""]
ListenerOps ==
  {NoOp, [do |-> "off", h |-> "h1"], [do |-> "off", h |-> "h2"],
   [do |-> "on", h |-> "h3"]}

onMessage(cl, handler) == [cl EXCEPT !.listeners = Append(@, handler)]

\* listeners.indexOf(handler), from 1; 0 when there is none
IndexOf(seq, x) ==
  IF \E i \in 1..Len(seq) : seq[i] = x
  THEN CHOOSE i \in 1..Len(seq) : seq[i] = x /\ \A j \in 1..(i - 1) : seq[j] # x
  ELSE 0
offMessage(cl, handler) ==
  LET idx == IndexOf(cl.listeners, handler) IN
  IF idx >= 1
  THEN [cl EXCEPT !.listeners = SubSeq(@, 1, idx - 1) \o SubSeq(@, idx + 1, Len(@))]
  ELSE cl

\* resolve / reject of the promise: the first call settles it
MaxCalls == 3
Settle(cl, kind, text) ==
  [cl EXCEPT !.chat.settled = IF @ = Unsettled
                              THEN [kind |-> kind, text |-> text] ELSE @,
             !.chat.calls = IF @ < MaxCalls THEN @ + 1 ELSE @]
Carries(msg, correlationId) ==
  "correlationId" \in DOMAIN msg /\ msg.correlationId = correlationId
ChatHandler == "chat"
DisconnectedText == "disconnected before responding"

\* Faulty variant: the handler stays registered when the reply has come.
chatHandler_staysOn(cl, msg) ==
  LET done == [cl EXCEPT !.chat.timer = FALSE, !.chat.abortListener = FALSE] IN
  IF msg.type = "dm_response" /\ Carries(msg, cl.chat.correlationId)
  THEN Settle(done, "resolved", msg.content)
  ELSE IF msg.type = "error" /\ Carries(msg, cl.chat.correlationId)
  THEN Settle(offMessage(done, ChatHandler), "rejected", msg.message)
  ELSE IF msg.type = "agent_left" /\ msg.name = cl.chat.agent
  THEN Settle(offMessage(done, ChatHandler), "rejected", DisconnectedText)
  ELSE cl

\* hive_chat: const handler = (msg) => ...
chatHandler(cl, msg) ==
  LET done == offMessage([cl EXCEPT !.chat.timer = FALSE,
                                    !.chat.abortListener = FALSE], ChatHandler) IN
  IF msg.type = "dm_response" /\ Carries(msg, cl.chat.correlationId)
  THEN Settle(done, "resolved", msg.content)
  ELSE IF msg.type = "error" /\ Carries(msg, cl.chat.correlationId)
  THEN Settle(done, "rejected", msg.message)
  ELSE IF msg.type = "agent_left" /\ msg.name = cl.chat.agent
  THEN Settle(done, "rejected", DisconnectedText)
  ELSE cl

\* hive_chat: the timer's callback, and onAbort
chatTimeout(cl) ==
  Settle(offMessage([cl EXCEPT !.chat.timer = FALSE], ChatHandler),
         "rejected", "Timeout")
chatAbort(cl) ==
  Settle(offMessage([cl EXCEPT !.chat.timer = FALSE,
                               !.chat.abortListener = FALSE], ChatHandler),
         "rejected", "Aborted")

\* hive_chat execute, as far as the promise it awaits
chatExecute(cl, agent, correlationId) ==
  IF ~cl.connected
  THEN [cl EXCEPT !.chat.state = "returned",
                  !.chat.settled = [kind |-> "error", text |-> "Not connected"]]
  ELSE IF NamedIndex(cl.knownAgents, agent) = 0
  THEN [cl EXCEPT !.chat.state = "returned",
                  !.chat.settled = [kind |-> "error", text |-> "not online"]]
  ELSE onMessage([cl EXCEPT !.chat.state = "awaiting",
                            !.chat.agent = agent,
                            !.chat.correlationId = correlationId,
                            !.chat.timer = TRUE,
                            !.chat.abortListener = TRUE], ChatHandler)

\* handler(msg)
Invoke(cl, handler, msg, op) ==
  LET cl1 == [cl EXCEPT !.dispatch.invoked =
                Append(@, [handler |-> handler, saw |-> cl.knownAgents,
                           op |-> op])]
  IN CASE handler = ChatHandler -> chatHandler(cl1, msg)
       [] op.do = "on" -> onMessage(cl1, op.h)
       [] op.do = "off" -> offMessage(cl1, op.h)
       [] OTHER -> cl1

\* for (const handler of [...this.listeners]) handler(msg)
RECURSIVE Notify(_, _, _, _, _)
Notify(cl, snapshot, msg, ops, i) ==
  IF i > Len(snapshot) THEN cl
  ELSE Notify(Invoke(cl, snapshot[i], msg, ops[i]), snapshot, msg, ops, i + 1)

\* Faulty variant: the loop runs over the array itself.
RECURSIVE NotifyLive(_, _, _, _)
NotifyLive(cl, msg, ops, i) ==
  IF i > Len(cl.listeners) \/ i > Len(ops) THEN cl
  ELSE NotifyLive(Invoke(cl, cl.listeners[i], msg, ops[i]), msg, ops, i + 1)
onWsMessage_liveList(cl, msg, ops) ==
  LET cl1 == [cl EXCEPT
                !.dispatch = [msg |-> msg, listeners |-> cl.listeners,
                              known |-> cl.knownAgents, invoked |-> <<>>],
                !.knownAgents = clientHandleBrokerMessage(@, msg),
                !.reservations = clientHandleReservations(@, msg)]
  IN NotifyLive(cl1, msg, ops, 1)

\* ws.on("message") of the client, for a record that parses
onWsMessage(cl, msg, ops) ==
  LET cl1 == [cl EXCEPT
                !.dispatch = [msg |-> msg, listeners |-> cl.listeners,
                              known |-> cl.knownAgents, invoked |-> <<>>],
                !.knownAgents = clientHandleBrokerMessage(@, msg),
                !.reservations = clientHandleReservations(@, msg)]
  IN Notify(cl1, cl1.listeners, msg, ops, 1)

\* The records a client is sent here.
ListenRecords ==
  {[type |-> "agent_joined", agent |-> NewInfo("b", <<"y">>, 0)],
   [type |-> "agent_left", id |-> "b", name |-> <<"y">>]}

\* Some code of the extension registers a handler.
ClientOnMessage ==
  \E h \in Handlers :
    /\ Len(client.listeners) < MaxListeners
    /\ client' = [onMessage(client, h) EXCEPT !.dispatch = NoDispatch]
    /\ UNCHANGED <<brokerVars, inbox, hist, calc>>

ClientOffMessage ==
  \E h \in Handlers :
    /\ client' = [offMessage(client, h) EXCEPT !.dispatch = NoDispatch]
    /\ UNCHANGED <<brokerVars, inbox, hist, calc>>

\* A record arrives; each listener invoked does one of the things a listener
\* may do.
ClientMessage ==
  \E msg \in ListenRecords :
    \E ops \in [1..Len(client.listeners) -> ListenerOps] :
      /\ client' = onWsMessage(client, msg, ops)
      /\ Len(client'.listeners) <= MaxListeners
      /\ UNCHANGED <<brokerVars, inbox, hist, calc>>

\* The records a client with a hive_chat call is sent.
ChatTarget == <<"y">>
ChatId == "c1"
ChatRecords ==
  {[type |-> "agent_joined", agent |-> NewInfo("b", ChatTarget, 0)],
   [type |-> "agent_left", id |-> "b", name |-> ChatTarget],
   [type |-> "agent_left", id |-> "c", name |-> <<"z">>],
   [type |-> "dm_response", from |-> "b", fromName |-> ChatTarget,
    content |-> "hi", correlationId |-> ChatId],
   [type |-> "dm_response", from |-> "b", fromName |-> ChatTarget,
    content |-> "ho", correlationId |-> "c2"],
   [type |-> "error", message |-> "not online", correlationId |-> ChatId],
   [type |-> "error", message |-> "other"]}

\* The event a record is for the wait of the call.
EndingEvent(ch, msg) ==
  IF msg.type = "dm_response" /\ Carries(msg, ch.correlationId)
  THEN [kind |-> "dm_response", text |-> msg.content]
  ELSE IF msg.type = "error" /\ Carries(msg, ch.correlationId)
  THEN [kind |-> "error", text |-> msg.message]
  ELSE IF msg.type = "agent_left" /\ msg.name = ch.agent
  THEN [kind |-> "agent_left", text |-> ""]
  ELSE NoEvent
Noted(cl, event) ==
  [cl EXCEPT !.chat.first = IF @ = NoEvent /\ client.chat.state = "awaiting"
                            THEN event ELSE @]

\* The agent calls hive_chat.
ChatExecute ==
  /\ client.chat.state = "idle"
  /\ client' = [chatExecute(client, ChatTarget, ChatId) EXCEPT
                  !.dispatch = NoDispatch]
  /\ UNCHANGED <<brokerVars, inbox, hist, calc>>

\* A record arrives while the other listeners do nothing.
ChatMessage ==
  \E msg \in ChatRecords :
    /\ client' = Noted(onWsMessage(client, msg,
                                    [i \in 1..Len(client.listeners) |-> NoOp]),
                       EndingEvent(client.chat, msg))
    /\ UNCHANGED <<brokerVars, inbox, hist, calc>>

\* The timer of the call runs out.
ChatTimeout ==
  /\ client.chat.timer
  /\ client' = Noted([chatTimeout(client) EXCEPT !.dispatch = NoDispatch],
                     [kind |-> "timeout", text |-> ""])
  /\ UNCHANGED <<brokerVars, inbox, hist, calc>>

\* The host aborts the signal of the call.
ChatAbort ==
  /\ client.chat.state = "awaiting"
  /\ ~client.chat.aborted
  /\ client' = Noted([(IF client.chat.abortListener THEN chatAbort(client)
                       ELSE client)
                      EXCEPT !.chat.aborted = TRUE, !.dispatch = NoDispatch],
                     [kind |-> "abort", text |-> ""])
  /\ UNCHANGED <<brokerVars, inbox, hist, calc>>

\* ws.on("open")
ClientOpen ==
  /\ ~client.connected
  /\ client' = [client EXCEPT !.connected = TRUE, !.call = NoCall,
                                 !.result = NoBlock]
  /\ UNCHANGED <<brokerVars, inbox, hist, calc>>

\* ws.on("close")
ClientClose ==
  /\ client.connected
  /\ client' = [client EXCEPT !.connected = FALSE, !.call = NoCall,
                                 !.result = NoBlock]
  /\ UNCHANGED <<brokerVars, inbox, hist, calc>>

\* registered / reservations_updated: the cache is replaced by the record's map
CacheReservations ==
  \E map \in ReservationCaches :
    /\ client.connected
    /\ client' = [client EXCEPT !.reservations = map, !.call = NoCall,
                                 !.result = NoBlock]
    /\ UNCHANGED <<brokerVars, inbox, hist, calc>>

\* registered / agent_list: the known agents are replaced by the record's list
CacheAgents ==
  \E list \in KnownAgentLists :
    /\ client.connected
    /\ client' = [client EXCEPT !.knownAgents = list, !.call = NoCall,
                                 !.result = NoBlock]
    /\ UNCHANGED <<brokerVars, inbox, hist, calc>>

\* The runtime announces a tool call.
ToolCall ==
  \E toolName \in ToolNames, inputPath \in ToolPaths :
    /\ client' = [client EXCEPT
                    !.call = [toolName |-> toolName, path |-> inputPath],
                    !.result = onToolCall(client, toolName, inputPath, SelfId, Cwd)]
    /\ UNCHANGED <<brokerVars, inbox, hist, calc>>

NoCalc == [fn |-> "none"]

\* The strings normalizeReservationPath is applied to: every string of a
\* letter, the two slashes and a blank up to a length.
PathChars == {"a", "/", "\\", " "}
RECURSIVE StringsUpTo(_)
StringsUpTo(n) ==
  IF n = 0 THEN {<<>>}
  ELSE LET less == StringsUpTo(n - 1) IN
       less \cup {Append(str, c) : str \in less, c \in PathChars}
PathInputs == StringsUpTo(MaxPathLen)
DrawnPath(raw) ==
  [fn |-> "normalizeReservationPath", raw |-> raw, applied |-> FALSE,
   out |-> <<>>, again |-> <<>>]
ReserveOf(raw) == [type |-> "reserve", paths |-> <<raw>>, reason |-> Undef]

(***************************************************************************)
(* Initial state and events                                                *)
(***************************************************************************)
InitFrom(n, c) ==
  /\ ready = [w \in Sessions |-> "NONE"]
  /\ agentId = [w \in Sessions |-> Null]
  /\ agents = EmptyMap
  /\ nameToId = EmptyMap
  /\ channels = EmptyMap
  /\ reservations = <<>>
  /\ now = 0
  /\ nids = 0
  /\ budget = n
  /\ disconnected = {}
  /\ refused = {}
  /\ client = ClientInit
  /\ calc = c
  /\ inbox = InboxInit
  /\ hist = HistInit
  /\ ev = [type |-> "init"]
  /\ sent = NoSend

InitWith(n) == InitFrom(n, NoCalc)

Init == InitWith(MaxRecords)

Apply(st) ==
  /\ agents' = st.agents
  /\ nameToId' = st.nameToId
  /\ channels' = st.channels
  /\ reservations' = st.reservations
  /\ ready' = st.ready
  /\ sent' = st.sent

\* wss.on("connection"): a new socket, OPEN, its agentId closure null.
\* Accepting a connection changes nothing any other event reads, so the
\* sessions are accepted in one order, each once the ones before it have
\* sent a register record or have left OPEN.
Connect ==
  \E i \in 1..Len(SessionOrder) :
    /\ ready[SessionOrder[i]] = "NONE"
    /\ \A j \in 1..(i - 1) :
          /\ ready[SessionOrder[j]] # "NONE"
          /\ agentId[SessionOrder[j]] # Null \/ ready[SessionOrder[j]] # "OPEN"
    /\ ready' = [ready EXCEPT ![SessionOrder[i]] = "OPEN"]
    /\ ev' = [type |-> "connect", ws |-> SessionOrder[i]]
    /\ sent' = NoSend
    /\ UNCHANGED <<agentId, agents, nameToId, channels, reservations, now, nids, budget, disconnected, refused, inbox, hist, client, calc>>

\* ws.on("message") with a register record.
RecvRegister ==
  \E w \in Sessions, i \in 1..Len(IdOrder), name \in RegNames :
   LET id == IdOrder[i] IN
    /\ ready[w] = "OPEN"
    /\ budget > 0
    /\ budget' = budget - 1
    /\ i <= nids + 1
    /\ nids' = IF i > nids THEN i ELSE nids
    /\ agentId' = [agentId EXCEPT ![w] = id]
    /\ Apply(handleRegister(Cur, w, [type |-> "register", id |-> id,
                                     name |-> name], now))
    /\ ev' = [type |-> "register", ws |-> w, id |-> id, name |-> name]
    /\ UNCHANGED <<now, disconnected, refused, inbox, hist, client, calc>>

\* ws.on("message") with any other record on a session whose agentId is set:
\* handleMessage(agentId, msg), which returns at once when the id has no
\* registry entry.
handleMessage(st, sid, msg, t) ==
  IF ~MapHas(st.agents, sid) THEN st
  ELSE CASE msg.type = "dm" -> handleDm(st, sid, msg)
         [] msg.type = "dm_response" -> handleDmResponse(st, sid, msg)
         [] msg.type = "broadcast" -> handleBroadcast(st, sid, msg)
         [] msg.type = "channel_create" -> handleChannelCreate(st, sid, msg)
         [] msg.type = "channel_join" -> handleChannelJoin(st, sid, msg)
         [] msg.type = "channel_leave" -> handleChannelLeave(st, sid, msg)
         [] msg.type = "channel_send" -> handleChannelSend(st, sid, msg)
         [] msg.type = "list_agents" ->
              sendTo(st, st.agents[sid].ws,
                     [type |-> "agent_list", agents |-> getAgents(st)])
         [] msg.type = "list_channels" ->
              sendTo(st, st.agents[sid].ws,
                     [type |-> "channel_list", channels |-> getChannels(st)])
         [] msg.type = "reserve" -> handleReserve(st, sid, msg)
         [] msg.type = "presence_update" -> handlePresenceUpdate(st, sid, msg)
         [] msg.type = "status_update" -> handleStatusUpdate(st, sid, msg)
         [] msg.type = "release" -> handleRelease(st, sid, msg)
         [] msg.type = "rename" -> handleRename(st, sid, msg)
         [] msg.type = "heartbeat" -> handleHeartbeat(st, sid, t)
         [] OTHER -> st

Recv(w, msg) ==
  /\ ready[w] = "OPEN"
  /\ agentId[w] # Null
  /\ budget > 0
  /\ budget' = budget - 1
  /\ Apply(handleMessage(Cur, agentId[w], msg, now))
  /\ ev' = [type |-> msg.type, ws |-> w, sid |-> agentId[w], msg |-> msg]
  /\ UNCHANGED <<agentId, now, nids, disconnected, refused, inbox, hist, client, calc>>

\* The same, the event remembering the tables it found and the record
\* handled just before it.
NoPrior == [type |-> "none"]
RecvNoting(w, msg) ==
  /\ ready[w] = "OPEN"
  /\ agentId[w] # Null
  /\ budget > 0
  /\ budget' = budget - 1
  /\ Apply(handleMessage(Cur, agentId[w], msg, now))
  /\ ev' = [type |-> msg.type, ws |-> w, sid |-> agentId[w], msg |-> msg,
            before |-> [agents |-> agents, nameToId |-> nameToId,
                        reservations |-> reservations],
            prior |-> IF ev.type \in {"reserve", "release", "rename"}
                      THEN [type |-> ev.type, sid |-> ev.sid, msg |-> ev.msg,
                            before |-> ev.before]
                      ELSE NoPrior]
  /\ UNCHANGED <<agentId, now, nids, disconnected, refused, inbox, hist, client, calc>>

DmNames == DOMAIN nameToId \cup {UnknownName}

RecvDm ==
  \E w \in Sessions, to \in DmNames, c \in Contents, k \in CorrelationIds :
    Recv(w, [type |-> "dm", to |-> to, content |-> c, correlationId |-> k])

RecvDmResponse ==
  \E w \in Sessions, to \in DmNames, c \in Contents,
     k \in CorrelationIds \ {Undef} :
    Recv(w, [type |-> "dm_response", to |-> to, content |-> c,
             correlationId |-> k])

\* The records of each type that registered sessions send.
BroadcastRecords == {[type |-> "broadcast", content |-> c] : c \in Contents}
ChannelCreateRecords ==
  {[type |-> "channel_create", channel |-> ch] : ch \in ChannelNames}
ChannelJoinRecords ==
  {[type |-> "channel_join", channel |-> ch] : ch \in ChannelNames}
ChannelLeaveRecords ==
  {[type |-> "channel_leave", channel |-> ch] : ch \in ChannelNames}
ChannelSendRecords ==
  {[type |-> "channel_send", channel |-> ch, content |-> c] :
     ch \in ChannelNames, c \in Contents}
ReserveRecords ==
  {[type |-> "reserve", paths |-> m.paths, reason |-> m.reason] :
     m \in ReserveMsgs}
\* A reserve none of whose paths survives normalization.
BlankReserveRecords ==
  {[type |-> "reserve", paths |-> ps, reason |-> Undef] : ps \in BlankPathLists}
ReleaseRecords == {[type |-> "release", paths |-> ps] : ps \in ReleasePathLists}
RenameRecords == {[type |-> "rename", name |-> n] : n \in RenameNames}
PresenceRecords ==
  {[type |-> "presence_update", statusMessage |-> m, lastActivityAt |-> t] :
     m \in StatusMessages, t \in ActivityStamps}
StatusRecords == {[type |-> "status_update", status |-> status] : status \in Statuses}

\* Reserves and releases that name one path.
TripPaths == {PDir, PFile, POther}
TripReasons == {Undef, "fix"}
ReserveOneRecords ==
  {[type |-> "reserve", paths |-> <<path>>, reason |-> reason] :
     path \in TripPaths, reason \in TripReasons}
ReleaseOneRecords == {[type |-> "release", paths |-> <<path>>] : path \in TripPaths}

RecvReserveOne == \E w \in Sessions, msg \in ReserveOneRecords : RecvNoting(w, msg)

RecvReleaseOne == \E w \in Sessions, msg \in ReleaseOneRecords : RecvNoting(w, msg)

\* Renames to the names registration gives out, and to another one.
TripNames == {<<"x">>, <<"x", "-", "2">>, <<"y", " ">>}
RenameTripRecords == {[type |-> "rename", name |-> n] : n \in TripNames}

RecvRenameTrip == \E w \in Sessions, msg \in RenameTripRecords : RecvNoting(w, msg)

RecvBroadcast == \E w \in Sessions, msg \in BroadcastRecords : Recv(w, msg)

RecvChannelCreate == \E w \in Sessions, msg \in ChannelCreateRecords : Recv(w, msg)

RecvChannelJoin == \E w \in Sessions, msg \in ChannelJoinRecords : Recv(w, msg)

RecvChannelLeave == \E w \in Sessions, msg \in ChannelLeaveRecords : Recv(w, msg)

RecvChannelSend == \E w \in Sessions, msg \in ChannelSendRecords : Recv(w, msg)

RecvReserve == \E w \in Sessions, msg \in ReserveRecords : Recv(w, msg)

RecvReserveBlank == \E w \in Sessions, msg \in BlankReserveRecords : Recv(w, msg)

RecvRelease == \E w \in Sessions, msg \in ReleaseRecords : Recv(w, msg)

RecvRename == \E w \in Sessions, msg \in RenameRecords : Recv(w, msg)

RecvPresenceUpdate == \E w \in Sessions, msg \in PresenceRecords : Recv(w, msg)

RecvStatusUpdate == \E w \in Sessions, msg \in StatusRecords : Recv(w, msg)

\* Records other than register, as a session may send them first.
FirstRecords ==
  {[type |-> "dm", to |-> <<"x">>, content |-> "hello", correlationId |-> Undef],
   [type |-> "channel_create", channel |-> "ch"],
   [type |-> "heartbeat"],
   [type |-> "list_agents"]}

\* ws.on("message") with a record other than register on a session that has
\* not registered.
RecvBeforeRegister ==
  \E w \in Sessions, msg \in FirstRecords :
    /\ ready[w] = "OPEN"
    /\ agentId[w] = Null
    /\ budget > 0
    /\ budget' = budget - 1
    /\ Apply(MustRegisterFirst(Cur, w))
    /\ ev' = [type |-> msg.type, ws |-> w, sid |-> Null, msg |-> msg]
    /\ refused' = refused \cup {w}
    /\ UNCHANGED <<agentId, now, nids, disconnected, inbox, hist, client, calc>>

\* ws.on("message") with a frame that JSON.parse rejects.
RecvInvalidJson ==
  \E w \in Sessions :
    /\ ready[w] = "OPEN"
    /\ budget > 0
    /\ budget' = budget - 1
    /\ Apply(InvalidJson(Cur, w))
    /\ ev' = [type |-> "invalid_json", ws |-> w, sid |-> agentId[w]]
    /\ refused' = IF agentId[w] = Null THEN refused \cup {w} ELSE refused
    /\ UNCHANGED <<agentId, now, nids, disconnected, inbox, hist, client, calc>>

RecvListAgents ==
  \E w \in Sessions : Recv(w, [type |-> "list_agents"])

RecvListChannels ==
  \E w \in Sessions : Recv(w, [type |-> "list_channels"])

\* A record whose type no case of the switch matches.
RecvUnknown ==
  \E w \in Sessions : Recv(w, [type |-> "bogus"])

\* The records the broker delivers to the client that the Inbox queues.  The
\* n-th record to arrive has the content n, which tells the records apart.
InboxRecords(c) ==
  {[type |-> "dm", from |-> "a", fromName |-> <<"x">>, content |-> c,
    correlationId |-> k] : k \in {Undef, "", "c1"}}
  \cup {[type |-> "broadcast", from |-> "a", fromName |-> <<"x">>,
          content |-> c],
         [type |-> "channel_message", channel |-> "ch", from |-> "a",
          fromName |-> <<"x">>, content |-> c]}
ArrivalOf(content) == CHOOSE i \in 1..MaxArrivals : ToString(i) = content
QueuedIds(ib) == [i \in 1..Len(ib.queue) |-> ArrivalOf(ib.queue[i].content)]
IdSet(ids) == {ids[i] : i \in 1..Len(ids)}

\* event.messages of an agent_end
TextPart(t) == [type |-> "text", text |-> t]
Assistant(parts) == [role |-> "assistant", content |-> parts]
TurnMessages ==
  {<<>>,
   <<Assistant(<<TextPart(<<" ", "o", "k", " ">>)>>)>>,
   <<Assistant(<<TextPart(<<"o", "k">>), [type |-> "toolCall", text |-> <<>>]>>),
     Assistant(<<TextPart(<<" ">>)>>),
     [role |-> "user", content |-> <<TextPart(<<"u">>)>>]>>,
   <<Assistant(<<>>)>>}

\* The client's message handler passes a broker record to the Inbox.
InboxTakes(msg) ==
  LET id == hist.arrived + 1 IN
    /\ hist.arrived < MaxArrivals
    /\ inbox' = handleBrokerMessage(Quiet(inbox), msg)
    /\ hist' = [hist EXCEPT
                  !.arrived = id,
                  !.recs = Append(@, msg),
                  !.midTurn = IF inbox.agentBusy \/ inbox.processing
                              THEN @ \cup {id} ELSE @,
                  !.armedBy = IF inbox.agentBusy \/ inbox.processing
                              THEN @ ELSE "arrival",
                  !.last = [type |-> "recv", id |-> id]]

InboxRecv ==
  \E msg \in InboxRecords(ToString(hist.arrived + 1)) :
    /\ InboxTakes(msg)
    /\ UNCHANGED <<brokerVars, client, calc>>

AgentStart ==
  /\ inbox' = onAgentStart(Quiet(inbox))
  /\ hist' = [hist EXCEPT !.armedBy = "none",
                           !.last = [type |-> "agent_start",
                                     cancelled |-> inbox.settleTimer]]
  /\ UNCHANGED <<brokerVars, client, calc>>

\* The dm_response records an event sent, each with the dm it answers and
\* the event that sent it.
Tagged(sends, id, at) ==
  [i \in 1..Len(sends) |-> [id |-> id, at |-> at, rec |-> sends[i]]]

\* pi.on("agent_end")
AgentEndStep(messages) ==
    /\ inbox' = onAgentEnd(Quiet(inbox), messages)
    /\ hist' = [hist EXCEPT
                  !.inflight = {},
                  !.armedBy = "agent_end",
                  !.endSeen = IdSet(QueuedIds(inbox)),
                  !.replies = @ \o Tagged(inbox'.sends, hist.pendingId, "agent_end"),
                  !.pendingId = 0,
                  !.last = [type |-> "agent_end",
                            messages |-> IF hist.pendingId # 0 THEN messages
                                         ELSE <<>>]]

AgentEnd ==
  \E messages \in TurnMessages :
    /\ AgentEndStep(messages)
    /\ UNCHANGED <<brokerVars, client, calc>>

\* The settle timer fires.
SettleTimerStep(outcome) ==
   LET gone == IdSet(QueuedIds(inbox)) \ IdSet(QueuedIds(inbox'))
       taken == gone # {}
       id == IF taken THEN CHOOSE i \in gone : TRUE ELSE 0
       injected == inbox'.injects # <<>>
   IN
    /\ inbox.settleTimer
    /\ inbox' = onSettleTimer(Quiet(inbox), outcome)
    /\ hist' =
         IF ~taken THEN [hist EXCEPT !.armedBy = "none",
                                     !.last = [type |-> "timer", id |-> 0]]
         ELSE [hist EXCEPT
                 !.armedBy = IF inbox'.settleTimer THEN @ ELSE "none",
                 !.done = Append(@, [id |-> id,
                                     how |-> IF injected THEN "injected"
                                             ELSE "dropped"]),
                 !.inflight = IF injected THEN @ \cup {id} ELSE @,
                 !.pendingId = IF injected /\ hist.recs[id].type = "dm"
                                  /\ Truthy(hist.recs[id].correlationId)
                               THEN id ELSE @,
                 !.replies = @ \o Tagged(inbox'.sends, id, "failure"),
                 !.last = [type |-> "timer", id |-> id]]

SettleTimer ==
  \E outcome \in Outcomes :
    /\ SettleTimerStep(outcome)
    /\ UNCHANGED <<brokerVars, client, calc>>

RecvHeartbeat ==
  \E w \in Sessions : Recv(w, [type |-> "heartbeat"])

\* The peer closes, or the connection fails: the socket leaves OPEN; its
\* close event is handled later.
TransportClose ==
  \E w \in Sessions :
    /\ ready[w] = "OPEN"
    /\ ready' = [ready EXCEPT ![w] = "CLOSING"]
    /\ ev' = [type |-> "transport_close", ws |-> w]
    /\ sent' = NoSend
    /\ UNCHANGED <<agentId, agents, nameToId, channels, reservations, now, nids, budget, disconnected, refused, inbox, hist, client, calc>>

\* The registry entries of the given ids, as pairs <<socket, id>>.
SocketsOf(ids) == {<<agents[id].ws, id>> : id \in ids}

SessionHandler(st, w) ==
  IF agentId[w] # Null THEN handleDisconnect(st, agentId[w]) ELSE st

\* ws.on("error"): the socket fails and its error handler runs; the close
\* event follows.
OnError ==
  \E w \in Sessions :
    /\ ready[w] = "OPEN"
    /\ Apply(SessionHandler([Cur EXCEPT !.ready[w] = "CLOSING"], w))
    /\ ev' = [type |-> "error", ws |-> w, sid |-> agentId[w]]
    /\ disconnected' = IF agentId[w] # Null THEN disconnected \cup {<<w, agentId[w]>>}
                       ELSE disconnected
    /\ UNCHANGED <<agentId, now, nids, budget, refused, inbox, hist, client, calc>>

\* ws.on("close")
OnClose ==
  \E w \in Sessions :
    /\ ready[w] = "CLOSING"
    /\ Apply(SessionHandler([Cur EXCEPT !.ready[w] = "CLOSED"], w))
    /\ ev' = [type |-> "close", ws |-> w, sid |-> agentId[w]]
    /\ disconnected' = IF agentId[w] # Null THEN disconnected \cup {<<w, agentId[w]>>}
                       ELSE disconnected
    /\ UNCHANGED <<agentId, now, nids, budget, refused, inbox, hist, client, calc>>

\* The hub's administrative hook, called with a name of the name map (with
\* any other name it returns at once).
AdminDisconnect ==
  \E name \in DOMAIN nameToId :
    /\ Apply(disconnectAgentByName(Cur, name))
    /\ ev' = [type |-> "admin_disconnect", name |-> name]
    /\ disconnected' = disconnected \cup SocketsOf(DOMAIN agents \ DOMAIN agents')
    /\ UNCHANGED <<agentId, now, nids, budget, refused, inbox, hist, client, calc>>

\* Time passes: more than the heartbeat timeout.  The broker reads the clock
\* only in now - lastHeartbeat > timeout, so time is kept relative to the
\* present: now stays put and every stored lastHeartbeat moves into the past,
\* down to Oldest, beyond which the comparison no longer changes.
TickStep == HeartbeatTimeout + 1
Oldest == 0 - TickStep
Tick ==
  /\ \E id \in DOMAIN agents : agents[id].lastHeartbeat > Oldest
  /\ agents' = [id \in DOMAIN agents |->
                  [agents[id] EXCEPT !.lastHeartbeat =
                     IF @ - TickStep < Oldest THEN Oldest ELSE @ - TickStep]]
  /\ ev' = [type |-> "tick"]
  /\ sent' = NoSend
  /\ UNCHANGED <<ready, agentId, nameToId, channels, reservations, now, nids, budget, disconnected, refused, inbox, hist, client, calc>>

\* Time passes, by the timeout or by one millisecond more: lastHeartbeat is
\* kept relative to the clock, and an age beyond the timeout is kept as the
\* timeout plus one.  The millisecond is taken when it brings an agent past
\* the timeout.
ElapseSteps == {1, HeartbeatTimeout}
Elapse ==
  \E d \in ElapseSteps :
    /\ agents # EmptyMap
    /\ d = 1 => \E id \in DOMAIN agents :
                  now - agents[id].lastHeartbeat = HeartbeatTimeout
    /\ \E id \in DOMAIN agents : agents[id].lastHeartbeat - d >= Oldest
    /\ agents' = [id \in DOMAIN agents |->
                    [agents[id] EXCEPT !.lastHeartbeat =
                       IF @ - d < Oldest THEN Oldest ELSE @ - d]]
    /\ ev' = [type |-> "elapse", by |-> d]
    /\ sent' = NoSend
    /\ UNCHANGED <<ready, agentId, nameToId, channels, reservations, now, nids, budget, disconnected, refused, inbox, hist, client, calc>>

Perms(S) == {f \in [1..Cardinality(S) -> S] : \A x \in S : \E i \in DOMAIN f : f[i] = x}

\* The reaper's timer callback.  The registry's Map order is not part of the
\* state: the sweep is taken in every order of the entries.
Reap ==
  \E order \in Perms(DOMAIN agents) :
    /\ Apply(checkHeartbeats(Cur, order, now))
    /\ ev' = [type |-> "reap"]
    /\ disconnected' = disconnected \cup SocketsOf(DOMAIN agents \ DOMAIN agents')
    /\ UNCHANGED <<agentId, now, nids, budget, refused, inbox, hist, client, calc>>

(***************************************************************************)
(* Specifications.  Every one starts from the broker just constructed and  *)
(* accepts connections, registers agents and closes sessions; they differ  *)
(* in the records the registered sessions send.                            *)
(***************************************************************************)
\* Registry and name map: register, rename and every disconnect trigger.
Next ==
  \/ Connect
  \/ RecvRegister
  \/ RecvRename
  \/ TransportClose
  \/ OnError
  \/ OnClose
  \/ AdminDisconnect

Spec == Init /\ [][Next]_vars

\* Reservation table.
NextRes ==
  \/ Connect
  \/ RecvRegister
  \/ RecvReserve
  \/ RecvReserveBlank
  \/ RecvRelease
  \/ TransportClose
  \/ OnClose

SpecRes == InitWith(MaxRecordsRes) /\ [][NextRes]_vars

\* Channel table, with renames of the channels' creators.
NextChan ==
  \/ Connect
  \/ RecvRegister
  \/ RecvChannelCreate
  \/ RecvChannelJoin
  \/ RecvChannelLeave
  \/ RecvRename
  \/ TransportClose
  \/ OnClose

SpecChan == InitWith(MaxRecordsChan) /\ [][NextChan]_vars

\* Channel traffic.
NextSend ==
  \/ Connect
  \/ RecvRegister
  \/ RecvChannelCreate
  \/ RecvChannelJoin
  \/ RecvChannelLeave
  \/ RecvChannelSend
  \/ TransportClose
  \/ OnClose

SpecSend == InitWith(MaxRecordsSend) /\ [][NextSend]_vars

\* Status and presence.
NextPres ==
  \/ Connect
  \/ RecvRegister
  \/ RecvStatusUpdate
  \/ RecvPresenceUpdate
  \/ TransportClose
  \/ OnClose

SpecPres == InitWith(MaxRecordsPres) /\ [][NextPres]_vars

\* Sessions that speak before they register.
NextFirst ==
  \/ Connect
  \/ RecvRegister
  \/ RecvBeforeRegister
  \/ RecvInvalidJson
  \/ TransportClose
  \/ OnClose

SpecFirst == InitWith(MaxRecordsFirst) /\ [][NextFirst]_vars

\* Protocol errors and the lifetime of sessions: records that are answered,
\* refused or ignored, and every way a session ends.
NextErr ==
  \/ Connect
  \/ RecvRegister
  \/ RecvBeforeRegister
  \/ RecvInvalidJson
  \/ RecvChannelCreate
  \/ RecvChannelJoin
  \/ RecvListAgents
  \/ RecvListChannels
  \/ RecvHeartbeat
  \/ RecvUnknown
  \/ TransportClose
  \/ OnError
  \/ OnClose
  \/ AdminDisconnect
  \/ Tick
  \/ Reap

SpecErr == InitWith(MaxRecordsErr) /\ [][NextErr]_vars

\* The Inbox of one client: arrivals, turns and the settle timer, in every
\* interleaving.
NextInbox ==
  \/ InboxRecv
  \/ AgentStart
  \/ AgentEnd
  \/ SettleTimer

SpecInbox == InitWith(0) /\ [][NextInbox]_vars

\* Reserves and releases of single paths.
NextTrip ==
  \/ Connect
  \/ RecvRegister
  \/ RecvReserveOne
  \/ RecvReleaseOne

SpecTrip == InitWith(MaxRecordsTrip) /\ [][NextTrip]_vars

\* Heartbeats, other records, the clock and the reaper's sweep.
NextReap ==
  \/ Connect
  \/ RecvRegister
  \/ RecvHeartbeat
  \/ RecvChannelCreate
  \/ RecvReserve
  \/ Elapse
  \/ Reap

SpecReap == InitWith(MaxRecordsReap) /\ [][NextReap]_vars

\* Renames.
NextNames ==
  \/ Connect
  \/ RecvRegister
  \/ RecvRenameTrip

SpecNames == InitWith(MaxRecordsNames) /\ [][NextNames]_vars

\* The client on the first session handles what the broker writes to it; a
\* WebSocket delivers in order, so its replica is that of the records so far.
ClientSession == SessionOrder[1]
Receives == client' = Fed(client, sent'[ClientSession])

RegisterFed ==
  \E w \in Sessions, i \in 1..Len(IdOrder), name \in RegNames :
   LET id == IdOrder[i] IN
    /\ ready[w] = "OPEN"
    /\ budget > 0
    /\ budget' = budget - 1
    /\ i <= nids + 1
    /\ nids' = IF i > nids THEN i ELSE nids
    /\ agentId' = [agentId EXCEPT ![w] = id]
    /\ Apply(handleRegister(Cur, w, [type |-> "register", id |-> id,
                                     name |-> name], now))
    /\ ev' = [type |-> "register", ws |-> w, id |-> id, name |-> name]
    /\ Receives
    /\ UNCHANGED <<now, disconnected, refused, inbox, hist, calc>>

RecvFed(w, msg) ==
  /\ ready[w] = "OPEN"
  /\ agentId[w] # Null
  /\ budget > 0
  /\ budget' = budget - 1
  /\ Apply(handleMessage(Cur, agentId[w], msg, now))
  /\ ev' = [type |-> msg.type, ws |-> w, sid |-> agentId[w], msg |-> msg]
  /\ Receives
  /\ UNCHANGED <<agentId, now, nids, disconnected, refused, inbox, hist, calc>>

RecvRenameFed == \E w \in Sessions, msg \in RenameTripRecords : RecvFed(w, msg)
RecvChannelCreateFed ==
  \E w \in Sessions, msg \in ChannelCreateRecords : RecvFed(w, msg)

OnCloseFed ==
  \E w \in Sessions :
    /\ ready[w] = "CLOSING"
    /\ Apply(SessionHandler([Cur EXCEPT !.ready[w] = "CLOSED"], w))
    /\ ev' = [type |-> "close", ws |-> w, sid |-> agentId[w]]
    /\ disconnected' = IF agentId[w] # Null THEN disconnected \cup {<<w, agentId[w]>>}
                       ELSE disconnected
    /\ Receives
    /\ UNCHANGED <<agentId, now, nids, budget, refused, inbox, hist, calc>>

RecvStatusUpdateFed == \E w \in Sessions, msg \in StatusRecords : RecvFed(w, msg)
RecvChannelJoinFed ==
  \E w \in Sessions, msg \in ChannelJoinRecords : RecvFed(w, msg)
RecvChannelLeaveFed ==
  \E w \in Sessions, msg \in ChannelLeaveRecords : RecvFed(w, msg)

\* The registry as a client sees it.
NextMirror ==
  \/ Connect
  \/ RegisterFed
  \/ RecvStatusUpdateFed
  \/ RecvChannelCreateFed
  \/ RecvChannelJoinFed
  \/ RecvChannelLeaveFed
  \/ TransportClose
  \/ OnCloseFed

SpecMirror == InitWith(MaxRecordsMirror) /\ [][NextMirror]_vars

\* Renames as a client sees them.
NextReplica ==
  \/ Connect
  \/ RegisterFed
  \/ RecvChannelCreateFed
  \/ RecvRenameFed
  \/ TransportClose
  \/ OnCloseFed

SpecReplica == InitWith(MaxRecordsReplica) /\ [][NextReplica]_vars

\* normalizeReservationPath applied to the drawn path, once and twice.
NormalizeInput ==
  /\ calc.fn = "normalizeReservationPath"
  /\ ~calc.applied
  /\ calc' = [calc EXCEPT
                !.applied = TRUE,
                !.out = normalizeReservationPath(calc.raw),
                !.again = normalizeReservationPath(normalizeReservationPath(calc.raw))]
  /\ UNCHANGED <<brokerVars, inbox, hist, client>>

\* A registered session reserves the drawn path.
RecvReserveInput ==
  \E w \in Sessions :
    /\ calc.fn = "normalizeReservationPath"
    /\ Recv(w, ReserveOf(calc.raw))

\* Path normalization: a path is drawn, normalized, and reserved.
NextNorm ==
  \/ Connect
  \/ RecvRegister
  \/ RecvReserveInput
  \/ NormalizeInput

SpecNorm ==
  /\ \E raw \in PathInputs : InitFrom(MaxRecordsNorm, DrawnPath(raw))
  /\ [][NextNorm]_vars

\* One client: its connection, what the broker makes it cache, and the tool
\* calls of its agent.
NextGuard ==
  \/ ClientOpen
  \/ ClientClose
  \/ CacheReservations
  \/ CacheAgents
  \/ ToolCall

SpecGuard == InitWith(0) /\ [][NextGuard]_vars

\* One client: its listeners and the records it is sent.
NextListen ==
  \/ ClientOnMessage
  \/ ClientOffMessage
  \/ ClientMessage

SpecListen == InitWith(0) /\ [][NextListen]_vars

\* One client and a call of hive_chat.
NextChat ==
  \/ ClientOpen
  \/ ClientClose
  \/ ClientOnMessage
  \/ ChatExecute
  \/ ChatMessage
  \/ ChatTimeout
  \/ ChatAbort

SpecChat == InitWith(0) /\ [][NextChat]_vars

\* The same, with every turn of the agent coming to an end: the runtime emits
\* agent_end when a turn finishes, and an injected record starts a turn.
SpecInboxFair == SpecInbox /\ WF_vars(AgentEnd)

\* The same, and a settle timer that is pending again and again fires: not
\* every one of them is cancelled by an agent_start within the settle delay.
SpecInboxLive == SpecInbox /\ WF_vars(AgentEnd) /\ SF_vars(SettleTimer)

\* Message routing.
NextMsg ==
  \/ Connect
  \/ RecvRegister
  \/ RecvRename
  \/ RecvDm
  \/ RecvDmResponse
  \/ RecvBroadcast
  \/ TransportClose
  \/ OnClose

SpecMsg == InitWith(MaxRecordsMsg) /\ [][NextMsg]_vars

\* Disconnect cleanup: every trigger, with channels and reservations to clear.
NextDisc ==
  \/ Connect
  \/ RecvRegister
  \/ RecvChannelCreate
  \/ RecvChannelJoin
  \/ RecvReserve
  \/ TransportClose
  \/ OnError
  \/ OnClose
  \/ AdminDisconnect
  \/ Tick
  \/ Reap

SpecDisc == InitWith(MaxRecordsDisc) /\ [][NextDisc]_vars

(***************************************************************************)
(* Claims                                                                  *)
(***************************************************************************)
Registered == DOMAIN agents
NameOf(id) == agents[id].info.name
HasType(s, t) == \E i \in 1..Len(s) : s[i].type = t

\* C1: in every reachable state the name map is a bijection onto the
\* registry: every registered agent's current name maps to its id, no two
\* registered agents share a name, and the map holds no name that no
\* registered agent currently has.
C1_NameMapBijection ==
  /\ \A id \in Registered :
        MapHas(nameToId, NameOf(id)) /\ nameToId[NameOf(id)] = id
  /\ \A id1, id2 \in Registered : id1 # id2 => NameOf(id1) # NameOf(id2)
  /\ \A n \in DOMAIN nameToId : \E id \in Registered : NameOf(id) = n

\* The overlap rule as the claim words it: equal, or one is a directory path
\* (ending "/") that is a prefix of the other or equals the other plus "/".
DirCovers(d, p) == EndsWith(d, "/") /\ (StartsWith(p, d) \/ d = p \o <<"/">>)
OverlapRule(a, b) == a = b \/ DirCovers(a, b) \/ DirCovers(b, a)

\* C2: in every reachable state no path in one agent's reservation overlaps
\* a path in a different agent's reservation.
C2_NoCrossOverlap ==
  \A j1, j2 \in 1..Len(reservations) :
    reservations[j1].owner # reservations[j2].owner =>
      \A k1 \in 1..Len(reservations[j1].paths),
         k2 \in 1..Len(reservations[j2].paths) :
        ~OverlapRule(reservations[j1].paths[k1], reservations[j2].paths[k2])

\* An agent holds a reservation and the last reserve request, by another
\* agent, was refused because of it.
C2_Witness ==
  /\ ev.type = "reserve"
  /\ \E j \in 1..Len(reservations) : reservations[j].owner # ev.sid
  /\ \E w \in Sessions : \E i \in 1..Len(sent[w]) :
        sent[w][i].type = "error" /\ sent[w][i].message.tpl = "File reserved by $1$2"

\* C3: in every reachable state every member of every channel is a registered
\* id and no channel of the table has an empty member set.
C3_ChannelMembers ==
  \A c \in DOMAIN channels :
    channels[c].members \subseteq Registered /\ channels[c].members # {}

\* A session's close event removed its agent and a channel it had joined is
\* still in the table for its remaining member.
C3_Witness ==
  /\ ev.type = "close"
  /\ ev.sid # Null /\ ev.sid \notin Registered
  /\ \E w \in Sessions : HasType(sent[w], "agent_left")
  /\ \E c \in DOMAIN channels : Cardinality(channels[c].members) = 1

\* The registry entries, other than those in excl, whose socket is w.
EntriesOn(w, excl) == {id \in Registered \ excl : agents[id].ws = w}
IsOpen(w) == ready[w] = "OPEN"
HoldsName(n) == {id \in Registered : NameOf(id) = n}
OnlyTo(w, rec) == [v \in Sessions |-> IF v = w THEN <<rec>> ELSE <<>>]
FromRegistered == ev.sid \in Registered

BroadcastRecord ==
  [type |-> "broadcast", from |-> ev.sid, fromName |-> NameOf(ev.sid),
   content |-> ev.msg.content]

\* C4 as stated: a broadcast by registered agent A puts exactly one broadcast
\* record (from A's id, A's current name, same content) on the wire for every
\* other agent registered at that moment, and none for A.
C4_BroadcastToEveryOther ==
  (ev.type = "broadcast" /\ FromRegistered) =>
    \A w \in Sessions :
      sent[w] = Repeat(BroadcastRecord, Cardinality(EntriesOn(w, {ev.sid})))

\* C4 amended: a broadcast by registered agent A puts exactly one broadcast
\* record on the wire for every other registered agent whose socket is open;
\* an agent whose socket is no longer open gets none, and none is for A.
C4_BroadcastToEveryOpenOther ==
  (ev.type = "broadcast" /\ FromRegistered) =>
    \A w \in Sessions :
      sent[w] = IF IsOpen(w)
                THEN Repeat(BroadcastRecord, Cardinality(EntriesOn(w, {ev.sid})))
                ELSE <<>>

\* A broadcast reached another agent while a third registered agent's socket
\* had already left OPEN.
C4_Witness ==
  /\ ev.type = "broadcast" /\ FromRegistered
  /\ \E w \in Sessions : w # agents[ev.sid].ws /\ sent[w] = <<BroadcastRecord>>
  /\ \E id \in Registered : ~IsOpen(agents[id].ws)

ForwardedRecord ==
  [type |-> ev.type, from |-> ev.sid, fromName |-> NameOf(ev.sid),
   content |-> ev.msg.content, correlationId |-> ev.msg.correlationId]
IsDirect == ev.type \in {"dm", "dm_response"} /\ FromRegistered

\* C5 as stated: a dm or dm_response whose `to` is the current name of a
\* registered agent is put on the wire exactly once, for that agent only, with
\* from = sender id, fromName = sender's current name and the content and
\* correlation id unchanged (absent when the dm carried none).
C5_DirectDelivered ==
  IsDirect =>
    \A t \in HoldsName(ev.msg.to) : sent = OnlyTo(agents[t].ws, ForwardedRecord)

\* C5 amended: the same, provided the target's socket is open; when it is not,
\* nothing is put on any wire.
C5_DirectDeliveredIfOpen ==
  IsDirect =>
    \A t \in HoldsName(ev.msg.to) :
      sent = IF IsOpen(agents[t].ws)
             THEN OnlyTo(agents[t].ws, ForwardedRecord) ELSE NoSend

\* A correlated dm_response reached the agent that holds the addressed name.
C5_Witness ==
  /\ ev.type = "dm_response" /\ FromRegistered
  /\ \E t \in HoldsName(ev.msg.to) :
        /\ t # ev.sid
        /\ sent[agents[t].ws] = <<ForwardedRecord>>
        /\ ForwardedRecord.correlationId = "c1"

NotOnlineError ==
  [type |-> "error",
   message |-> [tpl |-> "Agent \"$\" is not online", arg |-> ev.msg.to],
   correlationId |-> ev.msg.correlationId]

\* C6: a dm whose `to` is not the name of any registered agent puts exactly
\* one error record ("not online", the dm's correlation id) on the sender's
\* wire and nothing on any other; a dm_response whose `to` is unknown puts
\* nothing on any wire.
C6_UnknownTarget ==
  (IsDirect /\ HoldsName(ev.msg.to) = {}) =>
    sent = IF ev.type = "dm" THEN OnlyTo(ev.ws, NotOnlineError) ELSE NoSend

RegisteredRecord ==
  [type |-> "registered", id |-> ev.id,
   agents |-> {agents[i].info : i \in Registered},
   reservations |-> ReservationMap(reservations)]
JoinedRecord == [type |-> "agent_joined", agent |-> agents[ev.id].info]
NewcomerListed ==
  /\ ev.id \in Registered
  /\ agents[ev.id].info.status = "idle"
  /\ agents[ev.id].info.channels = <<>>
  /\ agents[ev.id].info \in RegisteredRecord.agents
ToNewcomer(v) == IF v = ev.ws THEN <<RegisteredRecord>> ELSE <<>>

\* C7 as stated: on register the newcomer, and nobody else, gets one
\* `registered` record listing the whole registry after insertion (the
\* newcomer idle and without channels) and the current reservation table, and
\* every other registered agent gets exactly one agent_joined for the newcomer.
C7_RegisterReplies ==
  ev.type = "register" =>
    /\ NewcomerListed
    /\ \A v \in Sessions :
         sent[v] = ToNewcomer(v)
                   \o Repeat(JoinedRecord, Cardinality(EntriesOn(v, {ev.id})))

\* C7 amended: the same, except that agent_joined goes only to the other
\* registered agents whose socket is open.
C7_RegisterRepliesIfOpen ==
  ev.type = "register" =>
    /\ NewcomerListed
    /\ \A v \in Sessions :
         sent[v] = ToNewcomer(v)
                   \o (IF IsOpen(v)
                       THEN Repeat(JoinedRecord, Cardinality(EntriesOn(v, {ev.id})))
                       ELSE <<>>)

\* A newcomer registered while a reservation was held and another session's
\* agent was told of it.
C7_Witness ==
  /\ ev.type = "register"
  /\ Len(reservations) >= 1
  /\ \E v \in Sessions \ {ev.ws} : sent[v] = <<JoinedRecord>>

\* The names held by registered agents, and the smallest k >= 2 from which
\* name-k is held by none of them.
HeldNames == {NameOf(id) : id \in Registered}
RECURSIVE FirstUnheld(_, _)
FirstUnheld(n, k) ==
  IF Suffix(n, k) \in HeldNames THEN FirstUnheld(n, k + 1) ELSE k
ExpectedName(n) ==
  IF n \in HeldNames THEN Suffix(n, FirstUnheld(n, 2)) ELSE n

\* C8: a register asking for a name n that a registered agent holds is given
\* n-k for the smallest k >= 2 such that no registered agent holds n-k; asking
\* for a name nobody holds it is given n itself; the name given is never one
\* held by another registered agent.
C8_ResolvedName ==
  [][ev'.type = "register" =>
       /\ agents'[ev'.id].info.name = ExpectedName(ev'.name)
       /\ \A id \in Registered \ {ev'.id} :
            NameOf(id) # agents'[ev'.id].info.name]_vars

IsDisconnectEvent(e) ==
  e.type \in {"close", "error", "admin_disconnect", "reap"}
LeftRecord(x) == [type |-> "agent_left", id |-> x, name |-> NameOf(x)]
InWire(s, rec) == \E i \in 1..Len(s) : s[i] = rec
UpdatedWithout(s, x) ==
  \E i \in 1..Len(s) :
    s[i].type = "reservations_updated" /\ x \notin DOMAIN s[i].reservations

\* C9: when an agent X is disconnected (session close or error, administrative
\* disconnect, heartbeat timeout) then afterwards X is in neither the registry
\* nor the name map, is a member of no channel, no channel is left empty, X
\* owns no reservation; every remaining agent (with an open socket) gets
\* agent_left {id, name} for X, and gets a reservations_updated without X if
\* and only if X owned a reservation.
C9_DisconnectCleanup ==
  [][IsDisconnectEvent(ev') =>
       LET gone == Registered \ DOMAIN agents' IN
       /\ \A x \in gone :
            /\ \A n \in DOMAIN nameToId' : nameToId'[n] # x
            /\ \A c \in DOMAIN channels' :
                 x \notin channels'[c].members /\ channels'[c].members # {}
            /\ ~ResHas(reservations', x)
            /\ \A r \in DOMAIN agents' :
                 ready'[agents'[r].ws] = "OPEN" =>
                   /\ InWire(sent'[agents'[r].ws], LeftRecord(x))
                   /\ ResHas(reservations, x) =>
                        UpdatedWithout(sent'[agents'[r].ws], x)
       /\ (\A x \in gone : ~ResHas(reservations, x)) =>
            \A w \in Sessions : ~HasType(sent'[w], "reservations_updated")]_vars

Tables == <<agents, nameToId, channels, reservations>>

\* C10: a close or error event of a session asks to disconnect the id the
\* session registered; when a disconnect has already been triggered for that
\* id on that session (by the administrative hook, the reaper or an earlier
\* error event) the event changes no table and puts no record on any wire; and
\* a disconnect that removes X puts exactly one agent_left for X on the wire
\* of each remaining agent with an open socket.
C10_DisconnectIdempotent ==
  [][/\ (ev'.type \in {"close", "error"} /\ <<ev'.ws, ev'.sid>> \in disconnected) =>
          (UNCHANGED Tables /\ sent' = NoSend)
     /\ IsDisconnectEvent(ev') =>
          \A x \in Registered \ DOMAIN agents' :
            \A r \in DOMAIN agents' :
              ready'[agents'[r].ws] = "OPEN" =>
                LET IsLeft(rec) == rec = LeftRecord(x) IN
                Len(SelectSeq(sent'[agents'[r].ws], IsLeft))
                  = Cardinality({q \in DOMAIN agents' :
                                   agents'[q].ws = agents'[r].ws})]_vars

\* The record came from the session that made the sender's registration.
FromOwnSession(e) == e.sid \in Registered /\ agents[e.sid].ws = e.ws
Incoming(e) == dedupePaths(NormalizedPaths(e.msg.paths))
PathsOf(res, j) == {res[j].paths[k] : k \in 1..Len(res[j].paths)}
\* The entries of other agents holding a path that overlaps an incoming one.
Blockers(e) ==
  {j \in 1..Len(reservations) :
     /\ reservations[j].owner # e.sid
     /\ \E i \in 1..Len(Incoming(e)) : \E q \in PathsOf(reservations, j) :
          OverlapRule(Incoming(e)[i], q)}
ConflictError(j) ==
  [type |-> "error",
   message |-> [tpl |-> "File reserved by $1$2",
                arg |-> NameOf(reservations[j].owner),
                reason |-> IF reservations[j].reason = Undef THEN ""
                           ELSE reservations[j].reason],
   correlationId |-> Undef]
IsConflictError(rec) ==
  rec.type = "error" /\ rec.message.tpl = "File reserved by $1$2"

HasNoDuplicates(r) == \A a, b \in 1..Len(r) : a # b => r[a] # r[b]
FirstIndex(s, x) == CHOOSE i \in 1..Len(s) : s[i] = x /\ \A j \in 1..(i - 1) : s[j] # x
\* r is s with every repetition after the first occurrence removed.
IsMergeOf(r, s) ==
  /\ HasNoDuplicates(r)
  /\ {r[a] : a \in 1..Len(r)} = {s[i] : i \in 1..Len(s)}
  /\ \A a, b \in 1..Len(r) : a < b => FirstIndex(s, r[a]) < FirstIndex(s, r[b])
Owners(res) == {res[j].owner : j \in 1..Len(res)}
PrevPaths(e) ==
  IF ResHas(reservations, e.sid) THEN ResGet(reservations, e.sid).paths ELSE <<>>
PrevReason(e) ==
  IF ResHas(reservations, e.sid) THEN ResGet(reservations, e.sid).reason ELSE Undef
OthersUnchanged(e) ==
  /\ Owners(reservations') \ {e.sid} = Owners(reservations) \ {e.sid}
  /\ \A o \in Owners(reservations) \ {e.sid} :
       ResGet(reservations', o) = ResGet(reservations, o)
ReserveSucceeds(e) ==
  e.type = "reserve" /\ FromOwnSession(e) /\ Len(Incoming(e)) > 0 /\ Blockers(e) = {}
ReserveEffect(e) ==
  /\ ResHas(reservations', e.sid)
  /\ IsMergeOf(ResGet(reservations', e.sid).paths, PrevPaths(e) \o Incoming(e))
  /\ ResGet(reservations', e.sid).reason =
       IF e.msg.reason # Undef THEN e.msg.reason ELSE PrevReason(e)
  /\ OthersUnchanged(e)
UpdatedRecord ==
  [type |-> "reservations_updated", reservations |-> ReservationMap(reservations')]

\* C12 as stated: a successful reserve by A makes A's paths the previous paths
\* followed by the new normalized ones without repetitions, takes the incoming
\* reason or else keeps the previous one, leaves the other agents' entries as
\* they were, and puts one reservations_updated with the new map on the wire
\* of every registered agent, A included.
C12_ReserveSuccess ==
  [][ReserveSucceeds(ev') =>
       /\ ReserveEffect(ev')
       /\ \A w \in Sessions :
            sent'[w] = Repeat(UpdatedRecord, Cardinality(EntriesOn(w, {})))]_vars

\* C12 amended: the same, the reservations_updated going to every registered
\* agent whose socket is open.
C12_ReserveSuccessIfOpen ==
  [][ReserveSucceeds(ev') =>
       /\ ReserveEffect(ev')
       /\ \A w \in Sessions :
            sent'[w] = IF IsOpen(w)
                       THEN Repeat(UpdatedRecord, Cardinality(EntriesOn(w, {})))
                       ELSE <<>>]_vars

\* An agent holding "/r/" for the reason "fix" added two paths without giving
\* a reason: three paths, the reason kept.
C12_Witness ==
  /\ ev.type = "reserve" /\ FromRegistered /\ agents[ev.sid].ws = ev.ws
  /\ ev.msg = [type |-> "reserve", paths |-> <<PFile, POther>>, reason |-> Undef]
  /\ ResHas(reservations, ev.sid)
  /\ Len(ResGet(reservations, ev.sid).paths) = 3
  /\ ResGet(reservations, ev.sid).reason = "fix"
  /\ HasType(sent[ev.ws], "reservations_updated")

NamedPaths(e) == {normalizeReservationPath(e.msg.paths[i]) : i \in 1..Len(e.msg.paths)}
\* The caller's previous paths that the release does not name.
RemainingPaths(e) ==
  LET NotNamed(p) == p \notin NamedPaths(e) IN SelectSeq(PrevPaths(e), NotNamed)
ReleaseEffect(e) ==
  /\ IF e.msg.paths = <<>> \/ Len(RemainingPaths(e)) = 0
     THEN ~ResHas(reservations', e.sid)
     ELSE /\ ResHas(reservations', e.sid)
          /\ ResGet(reservations', e.sid).paths = RemainingPaths(e)
  /\ OthersUnchanged(e)
IsRelease(e) == e.type = "release" /\ FromOwnSession(e)

\* C13 as stated: release without paths deletes the caller's entry; release
\* with paths removes exactly the caller's paths equal to the normalization
\* of a named path and deletes the entry when none remains; always the other
\* agents' entries are unchanged and one reservations_updated with the
\* current map goes on the wire of every registered agent.
C13_Release ==
  [][IsRelease(ev') =>
       /\ ReleaseEffect(ev')
       /\ \A w \in Sessions :
            sent'[w] = Repeat(UpdatedRecord, Cardinality(EntriesOn(w, {})))]_vars

\* C13 amended: the same, the reservations_updated going to every registered
\* agent whose socket is open.
C13_ReleaseIfOpen ==
  [][IsRelease(ev') =>
       /\ ReleaseEffect(ev')
       /\ \A w \in Sessions :
            sent'[w] = IF IsOpen(w)
                       THEN Repeat(UpdatedRecord, Cardinality(EntriesOn(w, {})))
                       ELSE <<>>]_vars

\* An agent holding "/r/", "/r/f" and "/q" released "/r/f": the two other
\* paths remain, in their order, and the update was broadcast.
C13_Witness ==
  /\ ev.type = "release" /\ FromRegistered /\ agents[ev.sid].ws = ev.ws
  /\ ev.msg.paths = <<PFile>>
  /\ ResHas(reservations, ev.sid)
  /\ ResGet(reservations, ev.sid).paths = <<PDir, <<"/", "q">>>>
  /\ sent[ev.ws] = <<[type |-> "reservations_updated",
                      reservations |-> ReservationMap(reservations)]>>

NewName(e) == Trim(e.msg.name)
IsRename(e) == e.type = "rename" /\ FromOwnSession(e)
\* The rename was not refused and changes the name.
RenameSucceeds(e) ==
  IsRename(e) /\ NewName(e) # NameOf(e.sid) /\ ~HasType(sent'[e.ws], "error")
RenamedRecord(e) ==
  [type |-> "agent_renamed", id |-> e.sid, oldName |-> NameOf(e.sid),
   newName |-> NewName(e)]
AfterStep == [agents |-> agents', nameToId |-> nameToId']
RenameEffect(e) ==
  /\ DOMAIN agents' = DOMAIN agents
  /\ agents'[e.sid].info.id = e.sid
  /\ agents'[e.sid].info.name = NewName(e)
  /\ MapHas(nameToId', NewName(e)) /\ nameToId'[NewName(e)] = e.sid
  /\ ~MapHas(nameToId', NameOf(e.sid))
  /\ DOMAIN channels' = DOMAIN channels
  /\ \A c \in DOMAIN channels :
       channels[c].createdBy = NameOf(e.sid) => channels'[c].createdBy = NewName(e)
  /\ DmTarget(AfterStep, NewName(e)) = e.sid
  /\ DmTarget(AfterStep, NameOf(e.sid)) = Null

\* C14 as stated: after a successful rename of S from old to new, S keeps its
\* id, the name map holds new -> S and no longer holds old, the channels
\* created by old record new, every registered agent, S included, gets one
\* agent_renamed {id, oldName, newName}, a dm to new resolves to S and a dm to
\* old resolves to nobody.
C14_Rename ==
  [][RenameSucceeds(ev') =>
       /\ RenameEffect(ev')
       /\ \A w \in Sessions :
            sent'[w] = Repeat(RenamedRecord(ev'), Cardinality(EntriesOn(w, {})))]_vars

\* C14 amended: the same, the agent_renamed going to every registered agent
\* whose socket is open.
C14_RenameIfOpen ==
  [][RenameSucceeds(ev') =>
       /\ RenameEffect(ev')
       /\ \A w \in Sessions :
            sent'[w] = IF IsOpen(w)
                       THEN Repeat(RenamedRecord(ev'), Cardinality(EntriesOn(w, {})))
                       ELSE <<>>]_vars

\* The creator of a channel was renamed to "z" (sent as "z ") and the channel
\* records the new name.
C14_Witness ==
  /\ ev.type = "rename" /\ FromRegistered /\ agents[ev.sid].ws = ev.ws
  /\ ev.msg.name = <<"z", " ">>
  /\ NameOf(ev.sid) = <<"z">>
  /\ HasType(sent[ev.ws], "agent_renamed")
  /\ \E c \in DOMAIN channels :
        channels[c].createdBy = <<"z">> /\ ev.sid \in channels[c].members

HeldByOther(e) == \E id \in Registered \ {e.sid} : NameOf(id) = NewName(e)
RenameError(e) ==
  IF NewName(e) = <<>> THEN EmptyNameError
  ELSE Error("Agent name \"$\" is already taken", NewName(e))

\* C15: a rename to a name that is empty after trimming, or that a different
\* registered agent holds, puts exactly one error on the sender's wire
\* ("taken" in the second case), nothing on any other wire, and leaves the
\* registry, the name map and the channels as they were.
C15_RenameRefused ==
  [][(IsRename(ev') /\ (NewName(ev') = <<>> \/ HeldByOther(ev'))) =>
       /\ sent' = OnlyTo(ev'.ws, RenameError(ev'))
       /\ UNCHANGED <<agents, nameToId, channels>>]_vars

\* A rename to the name another registered agent holds was refused.
C15_Witness ==
  /\ ev.type = "rename" /\ FromRegistered /\ agents[ev.sid].ws = ev.ws
  /\ \E id \in Registered \ {ev.sid} : NameOf(id) = Trim(ev.msg.name)
  /\ sent = OnlyTo(ev.ws, Error("Agent name \"$\" is already taken",
                                Trim(ev.msg.name)))

IsCreate(e) == e.type = "channel_create" /\ FromOwnSession(e)
CreatedRecord(e) ==
  [type |-> "channel_created", channel |-> e.msg.channel, by |-> NameOf(e.sid)]
CreateEffect(e) ==
  /\ DOMAIN channels' = DOMAIN channels \cup {e.msg.channel}
  /\ channels'[e.msg.channel] = [members |-> {e.sid}, createdBy |-> NameOf(e.sid)]
  /\ \A c \in DOMAIN channels : channels'[c] = channels[c]
  /\ DOMAIN agents' = DOMAIN agents
  /\ agents'[e.sid] =
       [agents[e.sid] EXCEPT !.info.channels = Append(@, e.msg.channel)]
  /\ \A id \in Registered \ {e.sid} : agents'[id] = agents[id]
CreateRefused(e) ==
  /\ sent' = OnlyTo(e.ws, Error("Channel \"$\" already exists", <<e.msg.channel>>))
  /\ UNCHANGED <<channels, agents>>

\* C16 as stated: channel_create for a name not in the channel table creates
\* the channel with the sender as only member and the sender's current name
\* as createdBy, appends it to the sender's channel list and puts one
\* channel_created on the wire of every registered agent, the sender
\* included; for an existing name the sender alone gets one error and
\* neither the channel table nor any channel list changes.
C16_ChannelCreate ==
  [][IsCreate(ev') =>
       IF ev'.msg.channel \in DOMAIN channels THEN CreateRefused(ev')
       ELSE /\ CreateEffect(ev')
            /\ \A w \in Sessions :
                 sent'[w] = Repeat(CreatedRecord(ev'),
                                   Cardinality(EntriesOn(w, {})))]_vars

\* C16 amended: the same, the channel_created going to every registered agent
\* whose socket is open.
C16_ChannelCreateIfOpen ==
  [][IsCreate(ev') =>
       IF ev'.msg.channel \in DOMAIN channels THEN CreateRefused(ev')
       ELSE /\ CreateEffect(ev')
            /\ \A w \in Sessions :
                 sent'[w] = IF IsOpen(w)
                            THEN Repeat(CreatedRecord(ev'),
                                        Cardinality(EntriesOn(w, {})))
                            ELSE <<>>]_vars

\* A channel was created and another session's agent was told; the creator
\* is its only member and lists it.
C16_Witness ==
  /\ ev.type = "channel_create" /\ FromRegistered /\ agents[ev.sid].ws = ev.ws
  /\ MapHas(channels, ev.msg.channel)
  /\ channels[ev.msg.channel].members = {ev.sid}
  /\ agents[ev.sid].info.channels = <<ev.msg.channel>>
  /\ \E w \in Sessions \ {ev.ws} : HasType(sent[w], "channel_created")

IsSend(e) == e.type = "channel_send" /\ FromOwnSession(e)
ChannelMessage(e) ==
  [type |-> "channel_message", channel |-> e.msg.channel, from |-> e.sid,
   fromName |-> NameOf(e.sid), content |-> e.msg.content]
SentAck(e) == [type |-> "channel_sent", channel |-> e.msg.channel]
OtherMembersOn(e, w) ==
  {id \in (channels[e.msg.channel].members \ {e.sid}) \cap Registered :
     agents[id].ws = w}
AckOn(e, w) == IF w = e.ws THEN <<SentAck(e)>> ELSE <<>>
SendRefused(e) ==
  IF ~MapHas(channels, e.msg.channel)
  THEN sent' = OnlyTo(e.ws, Error("Channel \"$\" does not exist",
                                  <<e.msg.channel>>))
  ELSE sent' = OnlyTo(e.ws, Error("You are not a member of channel \"$\"",
                                  <<e.msg.channel>>))
IsMemberSend(e) ==
  MapHas(channels, e.msg.channel) /\ e.sid \in channels[e.msg.channel].members

\* C17 as stated: a channel_send by a member of an existing channel puts
\* exactly one channel_message on the wire of each other current member,
\* none on a non-member's and none for the sender, and one channel_sent on
\* the sender's; to an absent channel or by a non-member it puts one error on
\* the sender's wire and nothing else anywhere.
C17_ChannelSend ==
  [][IsSend(ev') =>
       IF IsMemberSend(ev')
       THEN \A w \in Sessions :
              sent'[w] = Repeat(ChannelMessage(ev'),
                                Cardinality(OtherMembersOn(ev', w)))
                         \o AckOn(ev', w)
       ELSE SendRefused(ev')]_vars

\* C17 amended: the same, the channel_message going to each other current
\* member whose socket is open.
C17_ChannelSendIfOpen ==
  [][IsSend(ev') =>
       IF IsMemberSend(ev')
       THEN \A w \in Sessions :
              sent'[w] = IF IsOpen(w)
                         THEN Repeat(ChannelMessage(ev'),
                                     Cardinality(OtherMembersOn(ev', w)))
                              \o AckOn(ev', w)
                         ELSE <<>>
       ELSE SendRefused(ev')]_vars

\* A member's send reached another member on another session and was
\* acknowledged.
C17_Witness ==
  /\ ev.type = "channel_send" /\ FromRegistered /\ agents[ev.sid].ws = ev.ws
  /\ MapHas(channels, ev.msg.channel)
  /\ sent[ev.ws] = <<[type |-> "channel_sent", channel |-> ev.msg.channel]>>
  /\ \E id \in channels[ev.msg.channel].members \ {ev.sid} :
        /\ id \in Registered /\ agents[id].ws # ev.ws
        /\ Len(sent[agents[id].ws]) = 1
        /\ sent[agents[id].ws][1].type = "channel_message"

IsStatusUpdate(e) == e.type = "status_update" /\ FromOwnSession(e)
IsPresenceUpdate(e) == e.type = "presence_update" /\ FromOwnSession(e)
\* The sender's id, current name and stored triple after the step.
StoredSnapshot(e) ==
  [type |-> "status_changed", id |-> e.sid,
   name |-> agents'[e.sid].info.name,
   status |-> agents'[e.sid].info.status,
   statusMessage |-> agents'[e.sid].info.statusMessage,
   lastActivityAt |-> agents'[e.sid].info.lastActivityAt]
OnlyStatusChanges(e) ==
  /\ agents' = [agents EXCEPT ![e.sid].info.status = e.msg.status]
  /\ UNCHANGED <<nameToId, channels, reservations, ready>>
OnlyPresenceChanges(e) ==
  /\ agents' = [agents EXCEPT
                  ![e.sid].info.statusMessage = agents'[e.sid].info.statusMessage,
                  ![e.sid].info.lastActivityAt = e.msg.lastActivityAt]
  /\ UNCHANGED <<nameToId, channels, reservations, ready>>
SnapshotToOpenOthers(e) ==
  \A w \in Sessions :
    sent'[w] = IF IsOpen(w)
               THEN Repeat(StoredSnapshot(e), Cardinality(EntriesOn(w, {e.sid})))
               ELSE <<>>

\* C18: status_update changes only the sender's status, presence_update
\* only the sender's statusMessage and lastActivityAt, and each puts one
\* status_changed on the wire of every other registered agent (whose socket
\* is open), carrying the sender's id, current name and the triple (status,
\* statusMessage, lastActivityAt) as stored after the update.
C18_StatusChanged ==
  [][/\ IsStatusUpdate(ev') =>
          OnlyStatusChanges(ev') /\ SnapshotToOpenOthers(ev')
     /\ IsPresenceUpdate(ev') =>
          OnlyPresenceChanges(ev') /\ SnapshotToOpenOthers(ev')]_vars

\* The event is a frame received on a session that has not sent register.
BeforeRegister(e) ==
  /\ e.type \notin {"init", "connect", "register", "transport_close", "close",
                     "error", "admin_disconnect", "tick", "reap"}
  /\ agentId[e.ws] = Null
FirstError(e) ==
  IF e.type = "invalid_json" THEN InvalidJsonError
  ELSE MustRegisterFirstError
RegisterSucceeds(e) ==
  /\ e.id \in DOMAIN agents' /\ agents'[e.id].ws = e.ws
  /\ agentId'[e.ws] = e.id
  /\ \E i \in 1..Len(sent'[e.ws]) :
        /\ sent'[e.ws][i].type = "registered"
        /\ \A k \in 1..Len(sent'[e.ws]) : sent'[e.ws][k].type = "registered" => k = i

\* C19: on a session that has not sent register, a record other than
\* register, or a frame that does not decode, makes the broker put exactly
\* one error on that session's wire and nothing on any other, changes no
\* broker state and leaves the session open and unregistered; a register sent
\* later on such a session enters the registry and is answered by registered.
C19_MustRegisterFirst ==
  [][/\ BeforeRegister(ev') =>
          /\ sent' = OnlyTo(ev'.ws, FirstError(ev'))
          /\ UNCHANGED <<agents, nameToId, channels, reservations, ready, agentId>>
          /\ ready'[ev'.ws] = "OPEN"
     /\ (ev'.type = "register" /\ ev'.ws \in refused) =>
          RegisterSucceeds(ev')]_vars

\* A session that was refused while another agent was registered has since
\* registered.
C19_Witness ==
  /\ ev.type = "register" /\ ev.ws \in refused
  /\ ev.id \in Registered /\ agents[ev.id].ws = ev.ws
  /\ HasType(sent[ev.ws], "registered")
  /\ \E id \in Registered : agents[id].ws # ev.ws

\* The event is a frame received from a session.
RecordEvent(e) ==
  e.type \notin {"init", "connect", "transport_close", "close", "error",
                 "admin_disconnect", "tick", "reap"}
SessionEnders == {"transport_close", "close", "error", "admin_disconnect", "reap"}
ErrorsOnlyToCause ==
  \A w \in Sessions :
    HasType(sent'[w], "error") => RecordEvent(ev') /\ w = ev'.ws
OnlyEndersRemove ==
  (\/ \E id \in Registered : id \notin DOMAIN agents'
   \/ \E w \in Sessions : ready[w] = "OPEN" /\ ready'[w] # "OPEN")
    => ev'.type \in SessionEnders

\* C20: every error record goes on the wire of the session whose record
\* caused it and on no other; and no agent leaves the registry and no open
\* session stops being open in a step that handles a record: only a
\* transport close or error, the administrative disconnect and the heartbeat
\* sweep do that.
C20_ErrorsPerSession ==
  [][ErrorsOnlyToCause /\ OnlyEndersRemove]_vars

\* C21: the Inbox never has more than one record in flight: a record that
\* was injected and has not yet been followed by an agent_end is the only
\* one, and no event injects two.
C21_OneInFlight ==
  /\ Cardinality(hist.inflight) <= 1
  /\ Len(inbox.injects) <= 1

\* Two records were injected, the second only after the agent_end that
\* completed the first, and it is in flight now.
C21_Witness ==
  /\ Len(hist.done) = 2
  /\ \A i \in 1..2 : hist.done[i].how = "injected"
  /\ hist.inflight = {hist.done[2].id}

\* The record a step takes off the queue, 0 when it takes none.
TakenNow ==
  IF Len(hist'.done) > Len(hist.done) THEN hist'.done[Len(hist'.done)].id ELSE 0

\* C22: the Inbox dispatches records in arrival order whatever their kind:
\* the i-th record taken off the queue (injected, or dropped when both
\* injection attempts fail) is the i-th that arrived and the queue holds the
\* later ones in arrival order; a record that arrived during a turn is taken
\* only by the settle timer's callback and only after an agent_end that found
\* it queued.
C22_ArrivalOrder ==
  [][/\ \A i \in 1..Len(hist'.done) : hist'.done[i].id = i
     /\ QueuedIds(inbox') =
          [i \in 1..Len(inbox'.queue) |-> Len(hist'.done) + i]
     /\ TakenNow \in hist.midTurn =>
          /\ hist'.last.type = "timer"
          /\ inbox.settleTimer
          /\ TakenNow \in hist.endSeen]_vars

\* Two dms arrived during a turn and both have been injected.
C22_Witness ==
  /\ Len(hist.done) = 2
  /\ hist.midTurn = {1, 2}
  /\ \A i \in 1..2 : hist.recs[i].type = "dm" /\ hist.done[i].how = "injected"

\* The dms the Inbox treats as correlated, and those that carry a
\* correlationId at all.
Correlated(id) ==
  hist.recs[id].type = "dm" /\ Truthy(hist.recs[id].correlationId)
CarriesCorrelationId(id) ==
  hist.recs[id].type = "dm" /\ hist.recs[id].correlationId # Undef
RepliesTo(id) == {i \in 1..Len(hist.replies) : hist.replies[i].id = id}
NonBlankText(part) == part.type = "text" /\ Trim(part.text) # <<>>
RECURSIVE AssistantTexts(_)
AssistantTexts(messages) ==
  IF messages = <<>> THEN <<>>
  ELSE LET msg == Head(messages)
           parts == IF msg.role = "assistant"
                    THEN SelectSeq(msg.content, NonBlankText) ELSE <<>>
       IN [i \in 1..Len(parts) |-> parts[i].text]
            \o AssistantTexts(Tail(messages))
LastText(messages) ==
  LET texts == AssistantTexts(messages) IN
  IF texts = <<>> THEN <<>> ELSE texts[Len(texts)]

\* Every reply answers a dispatched dm that asked for one, with its
\* correlationId and to its sender's name, and no dm is answered twice; a
\* dropped dm has its reply at once, an injected one has it unless it is
\* still pending.
RepliesBound(asks(_)) ==
  /\ \A i \in 1..Len(hist.replies) :
       LET r == hist.replies[i] IN
       /\ r.id \in {hist.done[k].id : k \in 1..Len(hist.done)}
       /\ asks(r.id)
       /\ r.rec.type = "dm_response"
       /\ r.rec.to = hist.recs[r.id].fromName
       /\ r.rec.correlationId = hist.recs[r.id].correlationId
       /\ r.at = "failure" => r.rec.content = FailedToDeliver
  /\ \A k \in 1..Len(hist.done) :
       LET d == hist.done[k] IN
       /\ Cardinality(RepliesTo(d.id)) <= 1
       /\ asks(d.id) =>
            /\ d.how = "dropped" =>
                 \E i \in RepliesTo(d.id) : hist.replies[i].at = "failure"
            /\ d.how = "injected" =>
                 \/ hist.pendingId = d.id /\ RepliesTo(d.id) = {}
                 \/ \E i \in RepliesTo(d.id) : hist.replies[i].at = "agent_end"

\* The agent_end that follows the dispatch of a dm sends its reply, whose
\* content is made from the turn's messages.
RepliesAtNextEnd(content(_)) ==
  (hist'.last.type = "agent_end" /\ hist.pendingId # 0) =>
    /\ Len(hist'.replies) = Len(hist.replies) + 1
    /\ LET r == hist'.replies[Len(hist'.replies)] IN
       /\ r.id = hist.pendingId
       /\ r.at = "agent_end"
       /\ r.rec.content = content(hist'.last.messages)

\* A dm that is owed a reply does not stay so for ever.
Answered == hist.pendingId # 0 ~> hist.pendingId = 0

TrimmedReply(messages) ==
  IF LastText(messages) = <<>> THEN NoTextResponse
  ELSE Trim(LastText(messages))
UntrimmedReply(messages) ==
  IF LastText(messages) = <<>> THEN NoTextResponse ELSE LastText(messages)

\* C23 as stated: every dispatched dm that carries a correlationId gets
\* exactly one dm_response with its correlationId, to its sender's name, at
\* the next agent_end (content: the last non-blank assistant text, or the
\* fallback literal) or at once when both injection attempts fail; never
\* none, never two, and none for a record without a correlationId.
C23_OneReply ==
  /\ [][RepliesBound(CarriesCorrelationId)' /\ RepliesAtNextEnd(UntrimmedReply)]_vars
  /\ Answered

\* C23, amended: the same for every dispatched dm whose correlationId is not
\* empty, the content at agent_end being the last non-blank assistant text
\* with the white space around it trimmed off; a dm with an empty
\* correlationId is dispatched like one without and gets no dm_response.
C23_OneTrimmedReply ==
  /\ [][RepliesBound(Correlated)' /\ RepliesAtNextEnd(TrimmedReply)]_vars
  /\ Answered

\* Two correlated dms were dispatched and answered: one at the agent_end
\* after its injection with the trimmed text of the turn, the other at once
\* because both injection attempts failed.
C23_Witness ==
  /\ Len(hist.replies) = 2
  /\ \E i, j \in 1..2 :
       /\ hist.replies[i].at = "agent_end"
       /\ hist.replies[i].rec.content = <<"o", "k">>
       /\ hist.replies[j].at = "failure"
       /\ hist.replies[i].id # hist.replies[j].id

\* The last tool call was to edit or write a file.
WriteCalled == client.call.toolName \in {"edit", "write"}
TargetPath == clientNormalizeReservationPath(client.call.path, Cwd)
\* The cached reservations of other agents that overlap the target.
OthersOverlapping ==
  {i \in 1..Len(client.reservations) :
     /\ client.reservations[i].owner # SelfId
     /\ \E k \in 1..Len(client.reservations[i].paths) :
          reservationPathsOverlap(TargetPath, client.reservations[i].paths[k])}
CachedNames(id) ==
  {client.knownAgents[k].name : k \in {j \in 1..Len(client.knownAgents) :
     client.knownAgents[j].id = id /\ client.knownAgents[j].name # ""}}
BlockReasonFor(e) ==
  <<"File reserved by ",
    IF CachedNames(e.owner) # {} THEN CHOOSE n \in CachedNames(e.owner) : TRUE
    ELSE e.owner>>
  \o (IF e.reason \in {Undef, ""} THEN <<>> ELSE <<": ", e.reason>>)
BlockedIffOthersOverlap ==
  /\ client.result.block <=> OthersOverlapping # {}
  /\ client.result.block =>
       \E i \in OthersOverlapping :
         client.result.reason = BlockReasonFor(client.reservations[i])

\* C24 as stated: the write guard blocks an edit or write on path p exactly
\* when the cached reservation map holds, under an id other than the
\* client's own, a path that overlaps the normalization of p; the reason
\* names that owner (cached name, else id) and the reservation's reason.
C24_WriteGuard == WriteCalled => BlockedIffOthersOverlap

\* C24, amended: the same while the client is connected and the
\* normalization of p is not empty; otherwise the call is never blocked.
C24_WriteGuardConnected ==
  WriteCalled =>
    IF client.connected /\ TargetPath # <<>> THEN BlockedIffOthersOverlap
    ELSE client.result = NoBlock

\* A write was blocked for a reservation of b while the client's own
\* reservation, first in the cache, covers the same path.
C24_Witness ==
  /\ WriteCalled
  /\ client.result.block
  /\ Len(client.reservations) = 2
  /\ client.reservations[1].owner = SelfId
  /\ reservationPathsOverlap(TargetPath, client.reservations[1].paths[1])
  /\ client.reservations[2].owner = "b"
  /\ client.knownAgents # <<>>

SlashEnded(str) == str # <<>> /\ IsSlash(str[Len(str)])
AppliedTwice == calc.applied => calc.again = calc.out
StoredFixedPoints ==
  \A i \in 1..Len(reservations) :
    \A k \in 1..Len(reservations[i].paths) :
      LET path == reservations[i].paths[k] IN
      /\ normalizeReservationPath(path) = path
      /\ path # <<>>

\* C25 as stated: normalizing twice gives what normalizing once gives, for
\* every input; every stored path is a fixed point of the normalization, is
\* not empty, and ends in "/" exactly when the reserved input ended in "/"
\* or in a backslash.
C25_NormalizeIdempotent ==
  /\ AppliedTwice
  /\ StoredFixedPoints
  /\ \A i \in 1..Len(reservations) :
       \A k \in 1..Len(reservations[i].paths) :
         EndsWith(reservations[i].paths[k], "/") <=> SlashEnded(calc.raw)

\* C25, amended: the same, the stored path ending in "/" exactly when the
\* reserved input with the white space around it trimmed off ended in "/" or
\* in a backslash.
C25_NormalizeIdempotentTrimmed ==
  /\ AppliedTwice
  /\ StoredFixedPoints
  /\ \A i \in 1..Len(reservations) :
       \A k \in 1..Len(reservations[i].paths) :
         EndsWith(reservations[i].paths[k], "/") <=> SlashEnded(Trim(calc.raw))

\* The input " a\" was normalized and reserved: "a/" is stored.
C25_Witness ==
  /\ calc.fn = "normalizeReservationPath"
  /\ calc.applied
  /\ calc.raw = <<" ", "a", "\\">>
  /\ calc.out = <<"a", "/">>
  /\ Len(reservations) = 1
  /\ reservations[1].paths = <<calc.out>>

\* The last two records handled were a reserve of one path and then a
\* release of the same path by the same agent, and the reserve was granted:
\* the path was not empty and overlapped no path of another owner.
TripPath == normalizeReservationPath(ev.msg.paths[1])
ReserveGranted(e) ==
  /\ normalizeReservationPath(e.msg.paths[1]) # <<>>
  /\ \A j \in 1..Len(e.before.reservations) :
       e.before.reservations[j].owner # e.sid =>
         \A k \in 1..Len(e.before.reservations[j].paths) :
           ~OverlapRule(normalizeReservationPath(e.msg.paths[1]),
                        e.before.reservations[j].paths[k])
ReservedThenReleased ==
  /\ ev.type = "release"
  /\ ev.prior.type = "reserve"
  /\ ev.prior.sid = ev.sid
  /\ ev.prior.msg.paths = ev.msg.paths
  /\ ev.sid \in DOMAIN ev.prior.before.agents
  /\ ReserveGranted(ev.prior)
MapRestored ==
  ReservationMap(reservations) = ReservationMap(ev.prior.before.reservations)
\* What the agent held before the reserve.
HeldBefore ==
  IF ResHas(ev.prior.before.reservations, ev.sid)
  THEN ResGet(ev.prior.before.reservations, ev.sid)
  ELSE [owner |-> ev.sid, paths |-> <<>>, reason |-> Undef]
NewToHolder == ~InSeq(TripPath, HeldBefore.paths)
ReasonKept ==
  \/ HeldBefore.paths = <<>>
  \/ ev.prior.msg.reason \in {Undef, HeldBefore.reason}

\* C26 as stated: a granted reserve of p by an agent followed at once by
\* that agent's release of p leaves the reservation map, every owner's paths
\* and reason, as it was before the reserve.
C26_ReserveRelease == ReservedThenReleased => MapRestored

\* C26, amended: it does so exactly when the agent did not hold p already
\* and the reserve carried no reason, or the reason the agent already had, or
\* the agent held nothing.
C26_ReserveReleaseOfNewPath ==
  ReservedThenReleased => (MapRestored <=> (NewToHolder /\ ReasonKept))

\* An agent holding a path reserved a second path, one that needs
\* normalizing, and released it: the map is as before.
C26_Witness ==
  /\ ReservedThenReleased
  /\ NewToHolder
  /\ HeldBefore.paths # <<>>
  /\ ev.msg.paths[1] # TripPath
  /\ MapRestored

\* The last two records handled were renames of one agent, the first
\* granted (its name not empty and held by nobody else) and the second
\* naming the name the agent had before the first.
RenameGranted(e) ==
  /\ Trim(e.msg.name) # <<>>
  /\ MapHas(e.before.nameToId, Trim(e.msg.name)) =>
       e.before.nameToId[Trim(e.msg.name)] = e.sid
RenamedThereAndBack ==
  /\ ev.type = "rename"
  /\ ev.prior.type = "rename"
  /\ ev.prior.sid = ev.sid
  /\ ev.sid \in DOMAIN ev.prior.before.agents
  /\ RenameGranted(ev.prior)
  /\ ev.before.agents[ev.sid].info.name = Trim(ev.prior.msg.name)
  /\ ev.msg.name = ev.prior.before.agents[ev.sid].info.name
NamesRestored ==
  /\ nameToId = ev.prior.before.nameToId
  /\ agents[ev.sid].info.name = ev.prior.before.agents[ev.sid].info.name

\* C27: a granted rename of an agent from oldName to newName followed at
\* once by its rename from newName back to oldName leaves the name map and
\* the agent's name as they were before the first rename.
C27_RenameRoundTrip == RenamedThereAndBack => NamesRestored

\* C28: a heartbeat record of a registered agent (sent on the session that
\* registered it) changes nothing in the broker but that agent's
\* lastHeartbeat: the registry keeps its entries and every other field, the
\* name map, channels, reservations and sockets stay as they are; the
\* sender's wire gets one heartbeat_ack and no other wire gets a record.
C28_HeartbeatFrame ==
  [][(ev'.type = "heartbeat" /\ FromOwnSession(ev')) =>
       /\ DOMAIN agents' = DOMAIN agents
       /\ \A id \in Registered \ {ev'.sid} : agents'[id] = agents[id]
       /\ [agents'[ev'.sid] EXCEPT !.lastHeartbeat = 0]
            = [agents[ev'.sid] EXCEPT !.lastHeartbeat = 0]
       /\ UNCHANGED <<nameToId, channels, reservations, ready, agentId>>
       /\ sent'[ev'.ws] = <<[type |-> "heartbeat_ack"]>>
       /\ \A w \in Sessions \ {ev'.ws} : sent'[w] = <<>>]_vars

\* A heartbeat was handled for one of two registered agents, the other one
\* a timeout behind, with a channel and a reservation in the tables.
C28_Witness ==
  /\ ev.type = "heartbeat"
  /\ FromOwnSession(ev)
  /\ sent[ev.ws] = <<[type |-> "heartbeat_ack"]>>
  /\ agents[ev.sid].lastHeartbeat = now
  /\ \E id \in Registered \ {ev.sid} :
       now - agents[id].lastHeartbeat = HeartbeatTimeout
  /\ channels # EmptyMap \/ reservations # <<>>

\* The agents whose last heartbeat is more than the timeout old.
Overdue == {id \in Registered : now - agents[id].lastHeartbeat > HeartbeatTimeout}
SameHeartbeats(ids) ==
  \A id \in ids : agents'[id].lastHeartbeat = agents[id].lastHeartbeat

\* C29: a sweep of the reaper removes exactly the agents whose last
\* heartbeat is more than 60 s old, each with the cleanup of a disconnect (its
\* socket closed, out of every channel, no channel left empty, its
\* reservation gone, agent_left to every remaining agent with an open
\* socket), and leaves the entries of the others as they are; a register and
\* a heartbeat record set the agent's lastHeartbeat to the clock, and no other
\* record changes any lastHeartbeat.
C29_ReaperSweep ==
  [][/\ ev'.type = "reap" =>
          /\ DOMAIN agents' = Registered \ Overdue
          /\ \A id \in DOMAIN agents' : agents'[id] = agents[id]
          /\ \A x \in Overdue :
               /\ ready'[agents[x].ws] # "OPEN"
               /\ ~ResHas(reservations', x)
               /\ \A c \in DOMAIN channels' :
                    x \notin channels'[c].members /\ channels'[c].members # {}
               /\ \A r \in DOMAIN agents' :
                    ready'[agents'[r].ws] = "OPEN" =>
                      InWire(sent'[agents'[r].ws], LeftRecord(x))
     /\ ev'.type = "register" =>
          /\ agents'[ev'.id].lastHeartbeat = now
          /\ SameHeartbeats(Registered \ {ev'.id})
     /\ (ev'.type = "heartbeat" /\ ev'.sid \in Registered) =>
          /\ agents'[ev'.sid].lastHeartbeat = now
          /\ SameHeartbeats(Registered \ {ev'.sid})
     /\ ev'.type \in {"channel_create", "reserve", "connect"} =>
          SameHeartbeats(Registered)]_vars

\* A sweep removed an agent that held a reservation and left one whose last
\* heartbeat is exactly 60 s old, which was told of both.
C29_Witness ==
  /\ ev.type = "reap"
  /\ disconnected # {}
  /\ \E r \in Registered :
       /\ now - agents[r].lastHeartbeat = HeartbeatTimeout
       /\ HasType(sent[agents[r].ws], "agent_left")
       /\ HasType(sent[agents[r].ws], "reservations_updated")

SameName(e) == IsRename(e) /\ NewName(e) = NameOf(e.sid)
SameNameRecord(e) ==
  [type |-> "agent_renamed", id |-> e.sid, oldName |-> NameOf(e.sid),
   newName |-> NameOf(e.sid)]
NoBrokerChange ==
  /\ UNCHANGED <<agents, nameToId, channels, reservations, ready, agentId>>
  /\ client'.knownAgents = client.knownAgents

\* C30 as stated: a rename to the name the sender has changes no broker state
\* (registry, name map, channels and their createdBy), puts one agent_renamed
\* with oldName = newName on the wire of every registered agent, the sender
\* included, and the replica of the client that handles the record is what it
\* was.
C30_NoopRename ==
  [][SameName(ev') =>
       /\ NoBrokerChange
       /\ \A w \in Sessions :
            sent'[w] = Repeat(SameNameRecord(ev'), Cardinality(EntriesOn(w, {})))]_vars

\* C30 amended: the same, the agent_renamed going to every registered agent
\* whose socket is open.
C30_NoopRenameIfOpen ==
  [][SameName(ev') =>
       /\ NoBrokerChange
       /\ \A w \in Sessions :
            sent'[w] = IF IsOpen(w)
                       THEN Repeat(SameNameRecord(ev'), Cardinality(EntriesOn(w, {})))
                       ELSE <<>>]_vars

\* Another agent, the creator of a channel, renamed itself to the name it
\* has; the client got the record and its replica holds that agent under
\* that name.
C30_Witness ==
  /\ ev.type = "rename" /\ FromRegistered /\ agents[ev.sid].ws = ev.ws
  /\ ev.ws # ClientSession
  /\ NewName(ev) = NameOf(ev.sid)
  /\ \E i \in 1..Len(sent[ClientSession]) :
       /\ sent[ClientSession][i].type = "agent_renamed"
       /\ sent[ClientSession][i].oldName = sent[ClientSession][i].newName
  /\ KnownIndex(client.knownAgents, ev.sid) # 0
  /\ client.knownAgents[KnownIndex(client.knownAgents, ev.sid)].name = NameOf(ev.sid)
  /\ Len(client.knownAgents) > 1
  /\ \E c \in DOMAIN channels : channels[c].createdBy = NameOf(ev.sid)

\* A turn is active from an agent_start to the agent_end that follows it.
TurnActive(ib) == ib.agentBusy
Injects == inbox'.injects # <<>>

\* C31: the Inbox injects no record while a turn is active; an agent_start
\* cancels the scheduled dispatch, so that no settle timer is pending during
\* a turn; and a record is injected only by the callback of a pending settle
\* timer that goes back to an agent_end or to an arrival while idle, since
\* the last agent_start.
C31_NoInjectionInTurn ==
  [][/\ Injects =>
          /\ hist'.last.type = "timer"
          /\ ~TurnActive(inbox)
          /\ inbox.settleTimer
          /\ hist.armedBy \in {"agent_end", "arrival"}
     /\ hist'.last.type = "agent_start" => ~inbox'.settleTimer
     /\ TurnActive(inbox') => ~inbox'.settleTimer
     /\ inbox'.settleTimer => hist'.armedBy # "none"]_vars

\* An agent_start cancelled the dispatch scheduled for a queued record, after
\* an earlier record was injected.
C31_Witness ==
  /\ hist.last.type = "agent_start"
  /\ hist.last.cancelled
  /\ inbox.queue # <<>>
  /\ \E i \in 1..Len(hist.done) : hist.done[i].how = "injected"

DoneIds == {hist.done[i].id : i \in 1..Len(hist.done)}
\* A queue with nothing to move it: no turn, no record in flight, no timer.
Stuck ==
  /\ inbox.queue # <<>>
  /\ ~TurnActive(inbox)
  /\ hist.inflight = {}
  /\ ~inbox.settleTimer
\* Every record that arrived is queued or was taken off the queue, once.
NoneLost ==
  /\ IdSet(QueuedIds(inbox)) \cup DoneIds = 1..hist.arrived
  /\ IdSet(QueuedIds(inbox)) \cap DoneIds = {}
  /\ Len(inbox.queue) + Len(hist.done) = hist.arrived
NoneDropped == \A i \in 1..Len(hist.done) : hist.done[i].how = "injected"
QueueDrains == (inbox.queue # <<>>) ~> (inbox.queue = <<>>)

\* C32 as stated: every record enqueued is in the end injected, once, the
\* Inbox is never left with a queue that nothing will move, and no record is
\* discarded without being injected.
C32_AllInjected ==
  /\ [](~Stuck /\ NoneLost /\ NoneDropped)
  /\ QueueDrains

\* C32 amended: every record enqueued is in the end taken off the queue, once,
\* and injected by that step unless both injection attempts fail; the Inbox is
\* never left with a queue that nothing will move.
C32_AllTaken ==
  /\ [](~Stuck /\ NoneLost)
  /\ QueueDrains

\* Both records that arrived were taken: the first was dropped because both
\* injection attempts failed, the second, which arrived meanwhile, was
\* injected by the retry.
C32_Witness ==
  /\ hist.arrived = 2
  /\ inbox.queue = <<>>
  /\ Len(hist.done) = 2
  /\ hist.done[1].how = "dropped"
  /\ hist.done[2].how = "injected"

InvokedHandlers ==
  [i \in 1..Len(client.dispatch.invoked) |-> client.dispatch.invoked[i].handler]
Did(do, h) ==
  \E i \in 1..Len(client.dispatch.invoked) :
    client.dispatch.invoked[i].op = [do |-> do, h |-> h]
Dispatched == client.dispatch.msg.type # "none"

\* C33: for each record the client first updates its replica and then
\* invokes the listeners: every listener invoked sees the updated replica; the
\* listeners invoked are those registered when the dispatch began, each
\* registration once, in the order of registration, whatever the listeners
\* remove or register meanwhile; a listener registered during the dispatch and
\* not removed in it is registered for the next record.
C33_ListenerDispatch ==
  Dispatched =>
    /\ InvokedHandlers = client.dispatch.listeners
    /\ \A i \in 1..Len(client.dispatch.invoked) :
         client.dispatch.invoked[i].saw
           = clientHandleBrokerMessage(client.dispatch.known, client.dispatch.msg)
    /\ client.knownAgents
         = clientHandleBrokerMessage(client.dispatch.known, client.dispatch.msg)
    /\ \A h \in Handlers :
         (Did("on", h) /\ ~Did("off", h)) => IndexOf(client.listeners, h) # 0

\* In one dispatch of a record that changed the replica, the first listener
\* removed the second and the second registered a third: both were invoked,
\* the third was not, and the third is registered now while the second is not.
C33_Witness ==
  /\ Dispatched
  /\ client.dispatch.known # client.knownAgents
  /\ client.dispatch.listeners = <<"h1", "h2">>
  /\ client.dispatch.invoked[1].op = [do |-> "off", h |-> "h2"]
  /\ client.dispatch.invoked[2].op = [do |-> "on", h |-> "h3"]
  /\ InvokedHandlers = <<"h1", "h2">>
  /\ client.listeners = <<"h1", "h3">>

\* What the wait of a hive_chat call ends with, for the event that ends it.
Completion(event) ==
  CASE event.kind = "dm_response" -> [kind |-> "resolved", text |-> event.text]
    [] event.kind = "error" -> [kind |-> "rejected", text |-> event.text]
    [] event.kind = "agent_left" -> [kind |-> "rejected", text |-> DisconnectedText]
    [] event.kind = "timeout" -> [kind |-> "rejected", text |-> "Timeout"]
    [] event.kind = "abort" -> [kind |-> "rejected", text |-> "Aborted"]
    [] OTHER -> Unsettled
ChatRegistrations ==
  Cardinality({i \in 1..Len(client.listeners) : client.listeners[i] = ChatHandler})

\* C34: a pending hive_chat call is completed by the first of a dm_response
\* with its correlationId, an error with its correlationId, an agent_left for
\* the target's name, the timeout and the abort, with what that event gives;
\* until then its listener is registered, once; from then on the listener is
\* not registered, the timer is not pending, and no later record or event
\* changes what the call completed with.
C34_ChatCompletesOnce ==
  client.chat.state = "awaiting" =>
    /\ client.chat.settled = Completion(client.chat.first)
    /\ ChatRegistrations = (IF client.chat.first = NoEvent THEN 1 ELSE 0)
    /\ client.chat.timer = (client.chat.first = NoEvent)
    /\ client.chat.calls >= 1 <=> client.chat.first # NoEvent

\* The call timed out; the host then aborted the signal, whose listener
\* rejected again, and a dm_response with the call's correlationId came after
\* that: the call stays completed by the timeout.
C34_Witness ==
  /\ client.chat.state = "awaiting"
  /\ client.chat.first.kind = "timeout"
  /\ client.chat.aborted
  /\ client.chat.calls = 2
  /\ client.dispatch.msg.type = "dm_response"
  /\ Carries(client.dispatch.msg, client.chat.correlationId)
  /\ client.listeners # <<>>

\* The client on the first session is registered through it and its socket
\* is open; in the model it has handled every record written to it.
ClientRegistered ==
  /\ ready[ClientSession] = "OPEN"
  /\ agentId[ClientSession] \in Registered
  /\ agents[agentId[ClientSession]].ws = ClientSession
\* No registration replaced another: every entry is the one its session made
\* last, and every name in the name map is the name of its agent.
NoneReplaced ==
  /\ \A id \in Registered : agentId[agents[id].ws] = id
  /\ \A n \in DOMAIN nameToId :
       nameToId[n] \in Registered /\ NameOf(nameToId[n]) = n
RosterIds == {client.knownAgents[i].id : i \in 1..Len(client.knownAgents)}
RosterMirrors ==
  /\ RosterIds = Registered
  /\ Len(client.knownAgents) = Cardinality(Registered)
  /\ \A i \in 1..Len(client.knownAgents) :
       LET e == client.knownAgents[i]
           info == agents[e.id].info
       IN /\ e.name = info.name
          /\ e.status = info.status
          /\ e.statusMessage = info.statusMessage
          /\ IdSet(e.channels) = IdSet(info.channels)

\* C35: when a registered client has handled every record the broker sent
\* it, its roster holds exactly the registered ids, each with the name,
\* status, statusMessage and set of channels the broker holds for it (stated
\* here of states in which no registration replaced another).
C35_RosterMirrors == (ClientRegistered /\ NoneReplaced) => RosterMirrors

\* Reservations as a client sees them: one path reserved or released at a
\* time, or everything released, over paths under the client's directory.
MaxRecordsCache == 3
CacheReserveRecords ==
  {[type |-> "reserve", paths |-> <<path>>, reason |-> reason] :
     path \in CachedPaths, reason \in TripReasons}
CacheReleaseRecords ==
  {[type |-> "release", paths |-> ps] :
     ps \in {<<>>} \cup {<<path>> : path \in CachedPaths}}
RecvReserveFed == \E w \in Sessions, msg \in CacheReserveRecords : RecvFed(w, msg)
RecvReleaseFed == \E w \in Sessions, msg \in CacheReleaseRecords : RecvFed(w, msg)

NextCache ==
  \/ Connect
  \/ RegisterFed
  \/ RecvReserveFed
  \/ RecvReleaseFed
  \/ TransportClose
  \/ OnCloseFed

SpecCache == InitWith(MaxRecordsCache) /\ [][NextCache]_vars

\* The registry holds an entry made through the client's session.
ClientEntered ==
  /\ agentId[ClientSession] \in Registered
  /\ agents[agentId[ClientSession]].ws = ClientSession
\* The client's cache holds the owners of the broker's table, each with the
\* path list and the reason the table holds.
CacheMirrors == ReservationMap(client.reservations) = ReservationMap(reservations)
\* The client as its guard sees it: connected while its socket is open. Only
\* the guard's decision is read here, so the roster, which the guard reads
\* for the name its reason shows, is left empty.
Guarded ==
  [client EXCEPT !.connected = (ready[ClientSession] = "OPEN"),
                 !.knownAgents = <<>>]
\* The broker's table holds a path of another agent that overlaps the target
\* of a write to inputPath.
TableForbids(inputPath) ==
  LET targetPath == clientNormalizeReservationPath(inputPath, Cwd) IN
    \E j \in 1..Len(reservations) :
      /\ reservations[j].owner # agentId[ClientSession]
      /\ \E k \in 1..Len(reservations[j].paths) :
           reservationPathsOverlap(targetPath, reservations[j].paths[k])
GuardFollows ==
  \A inputPath \in ToolPaths :
    TableForbids(inputPath) =>
      onToolCall(Guarded, "write", inputPath, agentId[ClientSession], Cwd).block
\* The same of the writes whose target is not empty.
GuardFollowsTargets ==
  \A inputPath \in ToolPaths :
    (clientNormalizeReservationPath(inputPath, Cwd) # <<>> /\ TableForbids(inputPath))
      => onToolCall(Guarded, "write", inputPath, agentId[ClientSession], Cwd).block

\* C36 as stated: when a registered client has handled every record the
\* broker sent it, its reservation cache equals the broker's table (owners,
\* path lists, reasons), and a write the table forbids is blocked by its
\* guard.
C36_CacheMirrors == ClientEntered => (CacheMirrors /\ GuardFollows)
\* C36, amended: the same of a registered client whose socket is open, and
\* of the writes to a path that does not normalize to the empty string.
C36_CacheMirrorsIfOpen == ClientRegistered => (CacheMirrors /\ GuardFollowsTargets)
\* Another agent has just reserved a path, the client's cache holds it, and
\* its guard blocks a write under that path.
C36_Witness ==
  /\ ClientRegistered
  /\ ev.type = "reserve"
  /\ ev.ws # ClientSession
  /\ reservations # <<>>
  /\ CacheMirrors
  /\ \E inputPath \in ToolPaths :
       /\ TableForbids(inputPath)
       /\ onToolCall(Guarded, "write", inputPath, agentId[ClientSession], Cwd).block

\* What the broker holds for an agent: its entry (with its channels) and its
\* reservation.
HeldFor(ags, res, id) ==
  [entry |-> ags[id],
   reservation |-> SelectSeq(res, LAMBDA r : r.owner = id)]
\* The current registration of id was made by another session than w, and
\* that session is open.
RegisteredElsewhere(id, w) ==
  /\ id \in Registered
  /\ agents[id].ws # w
  /\ ready[agents[id].ws] = "OPEN"

\* C37: a transport close or error of one session never evicts an agent
\* whose current registration was made by a different, still-open session,
\* nor clears its channels or its reservation, even when both sessions sent
\* register with the same id.
C37_CloseSparesOthers ==
  [][ev'.type \in {"close", "error"} =>
       \A id \in Registered :
         RegisteredElsewhere(id, ev'.ws) =>
           /\ id \in DOMAIN agents'
           /\ HeldFor(agents', reservations', id).entry.ws = agents[id].ws
           /\ HeldFor(agents', reservations', id).entry.info.channels
                = agents[id].info.channels
           /\ HeldFor(agents', reservations', id).reservation
                = HeldFor(agents, reservations, id).reservation]_vars

\* The sessions whose transport has closed and whose close event was handled.
ClosedSessions == {w \in Sessions : ready[w] = "CLOSED"}

\* C38: once a session's transport has closed and its close event has been
\* handled, the registry holds no agent that was registered through that
\* session, whatever records it sent before (more than one register
\* included); every registry entry belongs to a session that is still open.
C38_ClosedLeavesNone ==
  \A id \in Registered : agents[id].ws \notin ClosedSessions
\* The same of the entries that are the last registration of their session.
LastOfClosedLeavesNone ==
  \A id \in Registered :
    agentId[agents[id].ws] = id => agents[id].ws \notin ClosedSessions

\* hive_release: what the tool hands to HiveClient.release, for parameters
\* that name paths; the paths are normalized against the working directory,
\* the empty results dropped and the rest deduplicated.
releaseNormalizedPaths(params, cwd) ==
  LET mapped == [i \in 1..Len(params.paths) |->
                   clientNormalizeReservationPath(params.paths[i], cwd)]
  IN dedupePaths(SelectSeq(mapped, LAMBDA path : path # <<>>))
\* HiveClient.release: the record it sends. A release record without paths is
\* kept with an empty list; handleRelease takes both the same way.
clientRelease(hasPaths, paths) ==
  IF hasPaths /\ Len(paths) > 0 THEN [type |-> "release", paths |-> paths]
  ELSE [type |-> "release", paths |-> <<>>]
\* hive_release execute, up to the call of release; the wait for the update
\* that follows only shapes the text the tool returns.
hiveRelease(params, cwd) ==
  IF "paths" \in DOMAIN params
  THEN clientRelease(TRUE, releaseNormalizedPaths(params, cwd))
  ELSE clientRelease(FALSE, <<>>)

\* Parameters of hive_release: no paths; one path that is blank, that
\* resolves to the root and normalizes to nothing, or that names a reserved
\* or an unreserved path; and two paths.
NoParams == <<>>
ReleaseParamSets ==
  {NoParams} \cup
  {[paths |-> ps] :
     ps \in {<<>>, <<PBlank>>, <<<<".", ".">>>>, <<<<"s", "/", "a", " ">>>>,
             <<<<".", "/", "s", "\\">>>>, <<<<"t">>>>,
             <<PBlank, <<"s", "/", "a">>>>}}
HeldReserveRecords ==
  CacheReserveRecords \cup
  {[type |-> "reserve", reason |-> Undef,
    paths |-> <<<<"/", "w", "/", "s", "/", "a">>, <<"/", "w", "/", "t">>>>]}
MaxRecordsRelease == 3

RecvReserveHeld == \E w \in Sessions, msg \in HeldReserveRecords : Recv(w, msg)

\* The hive_release tool of the client on session w, and the broker's
\* handling of the record it sends.
HiveRelease ==
  \E w \in Sessions, params \in ReleaseParamSets :
    /\ ready[w] = "OPEN"
    /\ agentId[w] # Null
    /\ budget > 0
    /\ budget' = budget - 1
    /\ Apply(handleMessage(Cur, agentId[w], hiveRelease(params, Cwd), now))
    /\ ev' = [type |-> "hive_release", ws |-> w, sid |-> agentId[w],
              params |-> params, before |-> reservations]
    /\ UNCHANGED <<agentId, now, nids, disconnected, refused, inbox, hist, client, calc>>

NextRelease ==
  \/ Connect
  \/ RecvRegister
  \/ RecvReserveHeld
  \/ HiveRelease

SpecRelease == InitWith(MaxRecordsRelease) /\ [][NextRelease]_vars

\* The paths of the reservation a table holds for an agent.
PathsHeld(res, id) ==
  IF ResHas(res, id)
  THEN {ResGet(res, id).paths[k] : k \in 1..Len(ResGet(res, id).paths)}
  ELSE {}
\* The normalizations of the paths a hive_release call names.
NamedToRelease(params) ==
  {clientNormalizeReservationPath(params.paths[k], Cwd) :
     k \in 1..Len(params.paths)}
NamesPaths(e) ==
  /\ e.type = "hive_release"
  /\ "paths" \in DOMAIN e.params
  /\ Len(e.params.paths) >= 1

\* C39: a release through hive_release that names at least one path never
\* removes from the caller's reservation a path that is not the
\* normalization of one of the named paths; naming only paths that are empty
\* or normalize to nothing leaves the reservation unchanged.
C39_ReleaseOnlyNamed ==
  NamesPaths(ev) =>
    PathsHeld(ev.before, ev.sid) \ PathsHeld(reservations, ev.sid)
      \subseteq NamedToRelease(ev.params)
\* The same of the calls one of whose paths has a normalization that is not
\* empty.
ReleaseOnlyNamedIfSome ==
  (NamesPaths(ev) /\ NamedToRelease(ev.params) # {<<>>}) =>
    PathsHeld(ev.before, ev.sid) \ PathsHeld(reservations, ev.sid)
      \subseteq NamedToRelease(ev.params)

\* A correlated dm and its answer: the client on the first session hands the
\* dm records the broker writes to it to its Inbox, and the broker handles
\* what the Inbox sends when it sends it (HiveClient.send drops a record
\* when the socket is not open).
MaxRecordsReply == 3
IsDm(rec) == rec.type = "dm"
DmFed ==
  \E w \in Sessions, to \in DOMAIN nameToId :
    /\ hist.arrived < MaxArrivals
    /\ ready[w] = "OPEN"
    /\ agentId[w] # Null
    /\ budget > 0
    /\ budget' = budget - 1
    /\ Apply(handleMessage(Cur, agentId[w],
                           [type |-> "dm", to |-> to,
                            content |-> ToString(hist.arrived + 1),
                            correlationId |-> "c1"], now))
    /\ ev' = [type |-> "dm", ws |-> w, sid |-> agentId[w], to |-> to]
    /\ IF SelectSeq(sent'[ClientSession], IsDm) # <<>>
       THEN InboxTakes(Head(SelectSeq(sent'[ClientSession], IsDm)))
       ELSE UNCHANGED <<inbox, hist>>
    /\ UNCHANGED <<agentId, now, nids, disconnected, refused, client, calc>>

RECURSIVE Routed(_, _)
Routed(st, sends) ==
  IF sends = <<>> \/ ready[ClientSession] # "OPEN" \/ agentId[ClientSession] = Null
  THEN st
  ELSE Routed(handleMessage(st, agentId[ClientSession], Head(sends), now),
              Tail(sends))

AgentEndFed ==
  \E messages \in TurnMessages :
    /\ AgentEndStep(messages)
    /\ Apply(Routed(Cur, inbox'.sends))
    /\ ev' = [type |-> "agent_end", ws |-> ClientSession,
              sid |-> agentId[ClientSession]]
    /\ UNCHANGED <<agentId, now, nids, budget, disconnected, refused, client, calc>>

SettleTimerFed ==
  \E outcome \in Outcomes :
    /\ SettleTimerStep(outcome)
    /\ Apply(Routed(Cur, inbox'.sends))
    /\ ev' = [type |-> "timer", ws |-> ClientSession,
              sid |-> agentId[ClientSession]]
    /\ UNCHANGED <<agentId, now, nids, budget, disconnected, refused, client, calc>>

NextReply ==
  \/ Connect
  \/ RecvRegister
  \/ DmFed
  \/ RecvRename
  \/ TransportClose
  \/ OnClose
  \/ AgentStart
  \/ SettleTimerFed
  \/ AgentEndFed

SpecReply == InitWith(MaxRecordsReply) /\ [][NextReply]_vars

\* The step sends a dm_response from the Inbox.
Answers == Len(hist'.replies) > Len(hist.replies)
\* The id of the agent that sent the dm the step answers.
Asker == hist.recs[hist'.replies[Len(hist'.replies)].id].from
\* The sessions a dm_response is written to in the step.
AnsweredOn == {w \in Sessions : HasType(sent'[w], "dm_response")}

\* C40: a dm_response the Inbox emits for a correlated dm is delivered to the
\* agent (by id) that sent the dm whenever that agent is still registered
\* when the broker routes the response, and to no other agent, whatever
\* rename, disconnect and register records came between the dm and its
\* response (stated here of steps before which the answering client is
\* registered with an open socket, no registration replaced another and the
\* asker's socket is open).
C40_ReplyToSender ==
  [][(Answers /\ ClientRegistered /\ NoneReplaced) =>
       /\ (Asker \in Registered /\ ready[agents[Asker].ws] = "OPEN")
            => agents[Asker].ws \in AnsweredOn
       /\ \A w \in AnsweredOn : Asker \in Registered /\ agents[Asker].ws = w]_vars
\* The response reaches nobody but the asker.
ReplyToNoOther ==
  [][(Answers /\ ClientRegistered /\ NoneReplaced) =>
       \A w \in AnsweredOn : Asker \in Registered /\ agents[Asker].ws = w]_vars
====
